---- MODULE Spec2Model ----
(***************************************************************************)
(* A model of the RESP codec of codecrafters-redis-rust: the buffering     *)
(* AsyncReader with its Checkpoint, the stream decoder RespReader (the     *)
(* library copy under src/resp and the binary's copy in main.rs), the      *)
(* RespValue model with its Display / PartialEq, and the nom slice parser. *)
(* Bytes are their integer codes; byte strings are sequences of bytes.     *)
(***************************************************************************)
EXTENDS Integers, Sequences, FiniteSets, TLC

VARIABLES
    impl,        \* "lib": src/types + src/resp ; "bin": the copies in main.rs
    input,       \* every byte the peer sends before it closes its side
    buffer,      \* AsyncReader.buffer: the bytes read and not yet consumed
    wire,        \* the bytes of input the stream has not delivered yet
    checkpoint,  \* the live Checkpoint, if any: its snapshot and where it began
    op,          \* the last operation called, with its argument
    pre,         \* buffer \o wire when the last operation was called
    result,      \* what the last operation returned
    value,       \* codec: the RespValue handed to Display
    other,       \* the RespValue that value is compared with
    encoded,     \* codec: the bytes Display wrote
    decoded,     \* codec: what parse_resp_value made of them
    conn,        \* handle_connection: where its loop is and what it has written
    db           \* the store: its entries and the clock

vars == <<impl, input, buffer, wire, checkpoint, op, pre, result,
          value, other, encoded, decoded, conn, db>>

(***************************************************************************)
(* Bytes.                                                                  *)
(***************************************************************************)
CR == 13
LF == 10
ZERO == 48
NINE == 57
CRLF == <<CR, LF>>

\* the bounds of the model
MaxBytes == 3      \* longest input of the reader specification
MaxCuts == 2       \* most chunk boundaries the stream puts into what is left
MaxTake == 2       \* largest n of take(n), besides usize::MAX
MaxFrags == 2      \* most fragments of an input of the decoder specification
MaxElems == 2      \* most elements of an Array or Push of the codec specification
UsizeBits == 4     \* width of the length type usize, scaled down from 64
I64Bits == 5       \* width of Integer's i64, scaled down from 64

UsizeMax == 2 ^ UsizeBits - 1
IsizeMax == 2 ^ (UsizeBits - 1) - 1
I64Max == 2 ^ (I64Bits - 1) - 1
I64Min == 0 - 2 ^ (I64Bits - 1)

Min(a, b) == IF a < b THEN a ELSE b

RECURSIVE Flatten(_)
Flatten(ss) == IF ss = <<>> THEN <<>> ELSE Head(ss) \o Flatten(Tail(ss))

Drop(s, n) == SubSeq(s, n + 1, Len(s))
Take(s, n) == SubSeq(s, 1, n)
IsPrefix(p, s) == Len(p) <= Len(s) /\ Take(s, Len(p)) = p

RECURSIVE SeqsUpTo(_, _)
SeqsUpTo(S, n) ==
    IF n = 0 THEN {<<>>}
    ELSE LET shorter == SeqsUpTo(S, n - 1)
         IN  shorter \cup {<<x>> \o s : x \in S, s \in {t \in shorter : Len(t) = n - 1}}

(***************************************************************************)
(* The stream: successive reads return the bytes in non-empty chunks, and  *)
(* 0 bytes once the peer has closed.  A chunking is one way the stream     *)
(* cuts the bytes it still holds into the chunks of the reads to come.     *)
(***************************************************************************)
RECURSIVE ChunkingsCut(_, _)
ChunkingsCut(s, k) ==
    IF s = <<>> THEN {<<>>}
    ELSE {<<s>>} \cup
         (IF k = 0 THEN {}
          ELSE UNION {{<<Take(s, i)>> \o c : c \in ChunkingsCut(Drop(s, i), k - 1)}
                      : i \in 1 .. (Len(s) - 1)})

Bytewise(s) == [i \in 1 .. Len(s) |-> <<s[i]>>]

Chunkings(s) == ChunkingsCut(s, MaxCuts) \cup {Bytewise(s)}

Reader(buf, chunks) == [buffer |-> buf, stream |-> chunks]

(***************************************************************************)
(* AsyncReader.  Every operator takes the reader r = [buffer, stream] and  *)
(* returns its return value together with the reader it leaves.            *)
(***************************************************************************)
\* BytesMut::clear on a buffer: no unread byte remains
clear(buf) == <<>>

\* stream.read_buf: appends the next chunk; Ok(0) at end of stream
read_buf(r) ==
    IF r.stream = <<>>
    THEN [n |-> 0, r |-> r]
    ELSE [n |-> Len(Head(r.stream)),
          r |-> Reader(r.buffer \o Head(r.stream), Tail(r.stream))]

fill_buf_lib(r) ==
    LET r1 == IF Len(r.buffer) = 0 THEN [r EXCEPT !.buffer = clear(@)] ELSE r
        rd == read_buf(r1)
    IN  [ok |-> rd.n # 0, r |-> rd.r]

fill_buf_bin(r) ==
    LET rd == read_buf(r)
    IN  [ok |-> rd.n # 0, r |-> rd.r]

fill_buf(i, r) == IF i = "lib" THEN fill_buf_lib(r) ELSE fill_buf_bin(r)

None(r) == [some |-> FALSE, b |-> 0, bytes |-> <<>>, panic |-> FALSE, r |-> r]
SomeByte(b, r) == [some |-> TRUE, b |-> b, bytes |-> <<>>, panic |-> FALSE, r |-> r]
SomeBytes(bs, r) == [some |-> TRUE, b |-> 0, bytes |-> bs, panic |-> FALSE, r |-> r]
Panicked(r) == [some |-> FALSE, b |-> 0, bytes |-> <<>>, panic |-> TRUE, r |-> r]

\* a get_u8 that hands out the newest byte of the buffer, not the oldest
get_u8_newest(r) ==
    SomeByte(r.buffer[Len(r.buffer)], [r EXCEPT !.buffer = Take(@, Len(@) - 1)])

\* Buf::get_u8 on a buffer with a remaining byte
get_u8(r) == SomeByte(Head(r.buffer), [r EXCEPT !.buffer = Tail(@)])

next(i, r) ==
    IF Len(r.buffer) > 0
    THEN get_u8(r)
    ELSE LET f == fill_buf(i, r)
         IN  IF f.ok THEN get_u8(f.r) ELSE None(f.r)

\* Some(b'\r') == next() && Some(b'\n') == next(): the second read is made
\* only when the first one returned CR
assert_newline(i, r) ==
    LET a == next(i, r)
    IN  IF a.some /\ a.b = CR
        THEN LET b == next(i, a.r)
             IN  [ok |-> b.some /\ b.b = LF, r |-> b.r]
        ELSE [ok |-> FALSE, r |-> a.r]

RECURSIVE next_line_loop(_, _, _)
next_line_loop(i, r, bytes) ==
    LET a == next(i, r)
    IN  IF ~a.some THEN None(a.r)
        ELSE IF a.b = CR
        THEN LET b == next(i, a.r)
             IN  IF b.some /\ b.b = LF THEN SomeBytes(bytes, b.r) ELSE None(b.r)
        ELSE next_line_loop(i, a.r, Append(bytes, a.b))

next_line(i, r) == next_line_loop(i, r, <<>>)

\* Vec::<u8>::with_capacity(n) panics (capacity overflow) above isize::MAX
with_capacity_ok(n) == n <= IsizeMax

\* the library's take: bytes has length 0 when copy_from_slice is called, and
\* copy_from_slice panics unless both slices have the same length; the buffer
\* is never advanced
RECURSIVE take_lib_loop(_, _, _, _)
take_lib_loop(r, n, copied, bytes) ==
    LET available == Len(r.buffer)
        to_copy == Min(available, n - copied)
        slice == Take(r.buffer, to_copy)
    IN  IF Len(bytes) # Len(slice) THEN Panicked(r)
        ELSE IF copied + to_copy = n THEN SomeBytes(slice, r)
        ELSE LET f == fill_buf_lib(r)
             IN  IF ~f.ok THEN None(f.r)
                 ELSE take_lib_loop(f.r, n, copied + to_copy, bytes)

take_lib(r, n) ==
    IF ~with_capacity_ok(n) THEN Panicked(r) ELSE take_lib_loop(r, n, 0, <<>>)

\* the binary's take: copy_to_slice copies into bytes[copied..] and advances
\* the buffer
RECURSIVE take_bin_loop(_, _, _, _)
take_bin_loop(r, n, copied, bytes) ==
    LET available == Len(r.buffer)
        to_copy == Min(available, n - copied)
        filled == bytes \o Take(r.buffer, to_copy)
        r1 == [r EXCEPT !.buffer = Drop(@, to_copy)]
    IN  IF copied + to_copy = n THEN SomeBytes(filled, r1)
        ELSE LET f == fill_buf_bin(r1)
             IN  IF ~f.ok THEN None(f.r)
                 ELSE take_bin_loop(f.r, n, copied + to_copy, filled)

\* a take that hands out what the buffer holds and never reads again
take_no_refill(r, n) ==
    IF Len(r.buffer) >= n
    THEN SomeBytes(Take(r.buffer, n), [r EXCEPT !.buffer = Drop(@, n)])
    ELSE None([r EXCEPT !.buffer = <<>>])

take_bin(r, n) ==
    IF ~with_capacity_ok(n) THEN Panicked(r) ELSE take_bin_loop(r, n, 0, <<>>)

take(i, r, n) == IF i = "lib" THEN take_lib(r, n) ELSE take_bin(r, n)

(***************************************************************************)
(* RespDataType: the tag table.                                            *)
(***************************************************************************)
RespDataTypes ==
    {"SimpleString", "SimpleError", "Integer", "BulkString", "Array", "Null",
     "Boolean", "Double", "BigNumber", "BulkError", "VerbatimString", "Map",
     "Set", "Push"}

\* From<RespDataType> for char
char_from(dt) ==
    CASE dt = "SimpleString" -> 43     \* '+'
      [] dt = "SimpleError" -> 45      \* '-'
      [] dt = "Integer" -> 58          \* ':'
      [] dt = "BulkString" -> 36       \* '$'
      [] dt = "Array" -> 42            \* '*'
      [] dt = "Null" -> 95             \* '_'
      [] dt = "Boolean" -> 35          \* '#'
      [] dt = "Double" -> 44           \* ','
      [] dt = "BigNumber" -> 40        \* '('
      [] dt = "BulkError" -> 33        \* '!'
      [] dt = "VerbatimString" -> 61   \* '='
      [] dt = "Map" -> 37              \* '%'
      [] dt = "Set" -> 126             \* '~'
      [] dt = "Push" -> 62             \* '>'

\* TryFrom<char> for RespDataType (and TryFrom<u8>, which goes through char);
\* "Err" stands for Err(())
try_from(c) ==
    CASE c = 43 -> "SimpleString"
      [] c = 45 -> "SimpleError"
      [] c = 58 -> "Integer"
      [] c = 36 -> "BulkString"
      [] c = 42 -> "Array"
      [] c = 95 -> "Null"
      [] c = 35 -> "Boolean"
      [] c = 44 -> "Double"
      [] c = 40 -> "BigNumber"
      [] c = 33 -> "BulkError"
      [] c = 61 -> "VerbatimString"
      [] c = 37 -> "Map"
      [] c = 126 -> "Set"
      [] c = 62 -> "Push"
      [] OTHER -> "Err"

(***************************************************************************)
(* RespValue.  One record shape for every variant, the fields a variant    *)
(* does not carry at their defaults: b Boolean, i Integer, d Double,       *)
(* s the text (bytes), e the VerbatimString encoding, a the elements of    *)
(* Array / Push / Set (Set: in the order the HashSet iterates), m the      *)
(* entries <<key, value>> of Map.                                          *)
(***************************************************************************)
F64(cls, neg, mant, exp) == [cls |-> cls, neg |-> neg, m |-> mant, e |-> exp]
F64Zero == F64("fin", FALSE, 0, 0)

RespValue(t) ==
    [t |-> t, b |-> FALSE, i |-> 0, d |-> F64Zero, s |-> <<>>, e |-> <<>>,
     a |-> <<>>, m |-> <<>>]

Null == RespValue("Null")
Boolean(b) == [RespValue("Boolean") EXCEPT !.b = b]
Integer(i) == [RespValue("Integer") EXCEPT !.i = i]
Double(d) == [RespValue("Double") EXCEPT !.d = d]
BigNumber(s) == [RespValue("BigNumber") EXCEPT !.s = s]
SimpleString(s) == [RespValue("SimpleString") EXCEPT !.s = s]
SimpleError(s) == [RespValue("SimpleError") EXCEPT !.s = s]
BulkString(s) == [RespValue("BulkString") EXCEPT !.s = s]
BulkError(s) == [RespValue("BulkError") EXCEPT !.s = s]
VerbatimString(e, s) == [RespValue("VerbatimString") EXCEPT !.e = e, !.s = s]
Array(a) == [RespValue("Array") EXCEPT !.a = a]
Push(a) == [RespValue("Push") EXCEPT !.a = a]
SetOf(a) == [RespValue("Set") EXCEPT !.a = a]
MapOf(m) == [RespValue("Map") EXCEPT !.m = m]

\* a conversion that takes a Push for an Array
data_type_from_push_as_array(v) == IF v.t = "Push" THEN "Array" ELSE v.t

\* From<&RespValue> for RespDataType
data_type_from(v) == v.t

(***************************************************************************)
(* Display for RespValue: the encoder.                                     *)
(***************************************************************************)
\* the decimal digits of a natural number, as fmt writes them
RECURSIVE FmtNat(_)
FmtNat(n) == IF n < 10 THEN <<ZERO + n>> ELSE FmtNat(n \div 10) \o <<ZERO + (n % 10)>>

MINUS == 45
PLUS == 43
DOT == 46
COLON == 58

\* {i} of an i64
FmtInt(i) == IF i < 0 THEN <<MINUS>> \o FmtNat(0 - i) ELSE FmtNat(i)

Zeros(n) == [k \in 1 .. n |-> ZERO]

\* {d:?} of an f64 whose shortest decimal digits are those of d.m, its value
\* d.m * 10^d.e: exponent form from 1e16 on and below 1e-4, otherwise a
\* decimal with at least one fractional digit; NaN is written without sign
FmtF64(d) ==
    LET sign == IF d.neg THEN <<MINUS>> ELSE <<>>
        ds == FmtNat(d.m)
        k == Len(ds)
        x == d.e + k - 1
    IN  IF d.cls = "nan" THEN <<78, 97, 78>>
        ELSE IF d.cls = "inf" THEN sign \o <<105, 110, 102>>
        ELSE IF d.m # 0 /\ (x >= 16 \/ x < -4)
        THEN sign \o <<ds[1]>> \o (IF k > 1 THEN <<DOT>> \o Tail(ds) ELSE <<>>)
                  \o <<101>> \o FmtInt(x)
        ELSE IF d.e >= 0 THEN sign \o ds \o Zeros(d.e) \o <<DOT, ZERO>>
        ELSE IF k > 0 - d.e
        THEN sign \o Take(ds, k + d.e) \o <<DOT>> \o Drop(ds, k + d.e)
        ELSE sign \o <<ZERO, DOT>> \o Zeros(0 - d.e - k) \o ds

RECURSIVE fmt(_)
RECURSIVE fmt_all(_)
RECURSIVE fmt_entries(_)

\* for e in arr { write!(f, "{}", e) }
fmt_all(vs) == IF vs = <<>> THEN <<>> ELSE fmt(Head(vs)) \o fmt_all(Tail(vs))

\* for (k, v) in map { write!(f, "{}{}", k, v) }
fmt_entries(es) ==
    IF es = <<>> THEN <<>>
    ELSE fmt(Head(es)[1]) \o fmt(Head(es)[2]) \o fmt_entries(Tail(es))

fmt(v) ==
    LET first_byte == <<char_from(data_type_from(v))>>
    IN  CASE v.t = "Null" -> first_byte \o CRLF
          [] v.t = "Boolean" -> first_byte \o <<IF v.b THEN 116 ELSE 102>> \o CRLF
          [] v.t = "Integer" -> first_byte \o FmtInt(v.i) \o CRLF
          [] v.t = "Double" -> first_byte \o FmtF64(v.d) \o CRLF
          [] v.t \in {"BigNumber", "SimpleString", "SimpleError"} ->
                first_byte \o v.s \o CRLF
          [] v.t \in {"BulkString", "BulkError"} ->
                first_byte \o FmtNat(Len(v.s)) \o CRLF \o v.s \o CRLF
          [] v.t = "VerbatimString" ->
                first_byte \o FmtNat(3 + 1 + Len(v.s)) \o CRLF \o v.e \o <<COLON>>
                    \o v.s \o CRLF
          [] v.t \in {"Array", "Push", "Set"} ->
                first_byte \o FmtNat(Len(v.a)) \o CRLF \o fmt_all(v.a)
          [] v.t = "Map" ->
                first_byte \o FmtNat(Len(v.m)) \o CRLF \o fmt_entries(v.m)

(***************************************************************************)
(* String::from_utf8 / std::str::from_utf8: whether the bytes are UTF-8.   *)
(***************************************************************************)
IsCont(b) == 128 <= b /\ b <= 191

RECURSIVE from_utf8_ok(_)
from_utf8_ok(bs) ==
    IF bs = <<>> THEN TRUE
    ELSE LET b == bs[1]
             n == Len(bs)
         IN  IF b < 128 THEN from_utf8_ok(Tail(bs))
             ELSE IF 194 <= b /\ b <= 223
             THEN n >= 2 /\ IsCont(bs[2]) /\ from_utf8_ok(Drop(bs, 2))
             ELSE IF 224 <= b /\ b <= 239
             THEN /\ n >= 3
                  /\ IF b = 224 THEN 160 <= bs[2] /\ bs[2] <= 191
                     ELSE IF b = 237 THEN 128 <= bs[2] /\ bs[2] <= 159
                     ELSE IsCont(bs[2])
                  /\ IsCont(bs[3])
                  /\ from_utf8_ok(Drop(bs, 3))
             ELSE IF 240 <= b /\ b <= 244
             THEN /\ n >= 4
                  /\ IF b = 240 THEN 144 <= bs[2] /\ bs[2] <= 191
                     ELSE IF b = 244 THEN 128 <= bs[2] /\ bs[2] <= 143
                     ELSE IsCont(bs[2])
                  /\ IsCont(bs[3])
                  /\ IsCont(bs[4])
                  /\ from_utf8_ok(Drop(bs, 4))
             ELSE FALSE

(***************************************************************************)
(* The nom combinators of parser.rs, all of them the streaming ones: on    *)
(* an input that ends before the match is decided they return Incomplete.  *)
(* A result is Ok(rest, out), Err::Incomplete or Err::Error(err).          *)
(***************************************************************************)
POk(rest, out) == [kind |-> "ok", rest |-> rest, out |-> out, err |-> ""]
PIncomplete == [kind |-> "incomplete", rest |-> <<>>, out |-> <<>>, err |-> ""]
PError(e) == [kind |-> "error", rest |-> <<>>, out |-> <<>>, err |-> e]
PPanic == [kind |-> "panic", rest |-> <<>>, out |-> <<>>, err |-> ""]

\* character::streaming::one_of / char
one_of(set, i) ==
    IF i = <<>> THEN PIncomplete
    ELSE IF i[1] \in set THEN POk(Tail(i), i[1])
    ELSE PError("Nom(OneOf)")

char(c, i) ==
    IF i = <<>> THEN PIncomplete
    ELSE IF i[1] = c THEN POk(Tail(i), c)
    ELSE PError("Nom(Char)")

\* bytes::streaming::tag: compare decides on the bytes there are
tag(t, i) ==
    LET n == Min(Len(t), Len(i))
    IN  IF Take(i, n) # Take(t, n) THEN PError("Nom(Tag)")
        ELSE IF Len(i) < Len(t) THEN PIncomplete
        ELSE POk(Drop(i, Len(t)), t)

\* character::streaming::crlf
crlf(i) ==
    LET n == Min(2, Len(i))
    IN  IF Take(i, n) # Take(CRLF, n) THEN PError("Nom(CrLf)")
        ELSE IF Len(i) < 2 THEN PIncomplete
        ELSE POk(Drop(i, 2), CRLF)

\* split_at_position1 (streaming): the longest prefix no byte of which is in
\* stop; Error when it is empty, Incomplete when no byte of stop is found
SplitAtPosition1(stop, i, kind) ==
    LET at == {k \in 1 .. Len(i) : i[k] \in stop}
    IN  IF at = {} THEN PIncomplete
        ELSE LET k == CHOOSE k \in at : \A j \in at : k <= j
             IN  IF k = 1 THEN PError(kind)
                 ELSE POk(Drop(i, k - 1), Take(i, k - 1))

AllBytes == 0 .. 255
Digits == ZERO .. NINE

digit1(i) == SplitAtPosition1(AllBytes \ Digits, i, "Nom(Digit)")
is_not(set, i) == SplitAtPosition1(set, i, "Nom(IsNot)")

\* bytes::streaming::take
take_bytes(n, i) ==
    IF Len(i) < n THEN PIncomplete ELSE POk(Drop(i, n), Take(i, n))

\* str::parse of an unsigned digit run into a type whose maximum is max:
\* -1 stands for Err(ParseIntError)
RECURSIVE ParseNatLoop(_, _, _)
ParseNatLoop(ds, acc, max) ==
    IF ds = <<>> THEN acc
    ELSE LET d == ds[1] - ZERO
         IN  IF acc > (max - d) \div 10 THEN -1
             ELSE ParseNatLoop(Tail(ds), 10 * acc + d, max)

ParseNat(ds, max) == ParseNatLoop(ds, 0, max)

\* a line that runs to the last CR LF of the input, not to the first
line_to_last_crlf(i) ==
    LET at == {k \in 2 .. (Len(i) - 1) : i[k] = CR /\ i[k + 1] = LF}
    IN  IF at = {} THEN is_not({CR, LF}, <<>>)
        ELSE LET k == CHOOSE m \in at : \A n \in at : n <= m
             IN  POk(Drop(i, k + 1), Take(i, k - 1))

\* line: terminated(is_not("\r\n"), crlf)
line(i) ==
    LET a == is_not({CR, LF}, i)
    IN  IF a.kind # "ok" THEN a
        ELSE LET b == crlf(a.rest)
             IN  IF b.kind # "ok" THEN b ELSE POk(b.rest, a.out)

parse_usize(i) ==
    LET a == digit1(i)
    IN  IF a.kind # "ok" THEN a
        ELSE LET b == crlf(a.rest)
                 n == ParseNat(a.out, UsizeMax)
             IN  IF b.kind # "ok" THEN b
                 ELSE IF n < 0 THEN PError("ParseInt")
                 ELSE POk(b.rest, n)

\* multi::length_value(parse_usize, rest): Incomplete while fewer bytes than
\* the length are there; rest returns all of the bytes it is given
length_value(i) ==
    LET len == parse_usize(i)
    IN  IF len.kind # "ok" THEN len
        ELSE IF len.out > Len(len.rest) THEN PIncomplete
        ELSE POk(Drop(len.rest, len.out), Take(len.rest, len.out))

\* length_bytes: terminated(length_value(parse_usize, rest), crlf)
length_bytes(i) ==
    LET a == length_value(i)
    IN  IF a.kind # "ok" THEN a
        ELSE LET b == crlf(a.rest)
             IN  IF b.kind # "ok" THEN b ELSE POk(b.rest, a.out)

\* map_cow(parser) applied to the parser's result: std::str::from_utf8
map_cow(a) ==
    IF a.kind # "ok" THEN a
    ELSE IF ~from_utf8_ok(a.out) THEN PError("ParseUtf8")
    ELSE a

\* map(parser, variant) applied to the parser's result
map(a, variant) == IF a.kind # "ok" THEN a ELSE POk(a.rest, [RespValue(variant) EXCEPT !.s = a.out])

parse_null(i) ==
    LET a == crlf(i)
    IN  IF a.kind # "ok" THEN a ELSE POk(a.rest, Null)

parse_boolean(i) ==
    LET a == one_of({116, 102}, i)
    IN  IF a.kind # "ok" THEN a
        ELSE LET b == crlf(a.rest)
             IN  IF b.kind # "ok" THEN b ELSE POk(b.rest, Boolean(a.out = 116))

parse_simple_string(i) == map(map_cow(line(i)), "SimpleString")
parse_simple_error(i) == map(map_cow(line(i)), "SimpleError")
parse_bulk_string(i) == map(map_cow(length_bytes(i)), "BulkString")
parse_bulk_error(i) == map(map_cow(length_bytes(i)), "BulkError")

\* tuple((take(3u8), char(':'), rest)) on the payload, then from_utf8 twice
parse_verbatim_string(i) ==
    LET a == length_bytes(i)
    IN  IF a.kind # "ok" THEN a
        ELSE LET enc == take_bytes(3, a.out)
             IN  IF enc.kind # "ok" THEN enc
                 ELSE LET c == char(COLON, enc.rest)
                      IN  IF c.kind # "ok" THEN c
                          ELSE IF ~from_utf8_ok(enc.out) \/ ~from_utf8_ok(c.rest)
                          THEN PError("ParseUtf8")
                          ELSE POk(a.rest, VerbatimString(enc.out, c.rest))

\* recognize(pair(char(sign), digit1))
signed_digits(sign, i) ==
    LET a == char(sign, i)
    IN  IF a.kind # "ok" THEN a
        ELSE LET b == digit1(a.rest)
             IN  IF b.kind # "ok" THEN b ELSE POk(b.rest, <<sign>> \o b.out)

\* alt: the first alternative that does not fail with Err::Error
alt3(a, b, c) ==
    IF a.kind # "error" THEN a ELSE IF b.kind # "error" THEN b ELSE c

\* str::parse::<i64> of [+-]?digits: -1 - I64Max - 1 stands for the error
ParseI64(bs) ==
    IF bs[1] = MINUS
    THEN LET n == ParseNat(Tail(bs), 0 - I64Min) IN [ok |-> n >= 0, v |-> 0 - n]
    ELSE LET n == ParseNat(IF bs[1] = PLUS THEN Tail(bs) ELSE bs, I64Max)
         IN  [ok |-> n >= 0, v |-> n]

parse_i64(i) ==
    LET a == alt3(digit1(i), signed_digits(MINUS, i), signed_digits(PLUS, i))
    IN  IF a.kind # "ok" THEN a
        ELSE LET b == crlf(a.rest)
                 n == ParseI64(a.out)
             IN  IF b.kind # "ok" THEN b
                 ELSE IF ~n.ok THEN PError("ParseInt")
                 ELSE POk(b.rest, n.v)

parse_integer(i) ==
    LET a == parse_i64(i)
    IN  IF a.kind # "ok" THEN a ELSE POk(a.rest, Integer(a.out))

\* opt(parser) applied to the parser's result at input i: None on Err::Error
opt(a, i) == IF a.kind = "error" THEN POk(i, <<>>) ELSE a

\* opt(one_of("+-"))
opt_sign(i) ==
    LET a == one_of({PLUS, MINUS}, i)
    IN  opt(IF a.kind = "ok" THEN POk(a.rest, <<a.out>>) ELSE a, i)

\* recognize(pair(opt(one_of("+-")), digit1))
opt_signed_digits(i) ==
    LET a == opt_sign(i)
    IN  IF a.kind # "ok" THEN a
        ELSE LET b == digit1(a.rest)
             IN  IF b.kind # "ok" THEN b ELSE POk(b.rest, a.out \o b.out)

parse_big_number(i) ==
    LET a == opt_signed_digits(i)
    IN  IF a.kind # "ok" THEN a
        ELSE LET b == crlf(a.rest)
             IN  IF b.kind # "ok" THEN b ELSE POk(b.rest, BigNumber(a.out))

\* opt(preceded(tag("."), digit1)): the fractional digits
opt_fraction(i) ==
    LET t == tag(<<DOT>>, i)
    IN  opt(IF t.kind # "ok" THEN t ELSE digit1(t.rest), i)

\* opt(preceded(one_of("eE"), recognize(pair(opt(one_of("+-")), digit1))))
opt_exponent(i) ==
    LET t == one_of({101, 69}, i)
    IN  opt(IF t.kind # "ok" THEN t ELSE opt_signed_digits(t.rest), i)

\* the shortest digits of m * 10^e: no trailing zero in m, zero as 0 * 10^0
RECURSIVE Normalize(_, _)
Normalize(m, e) ==
    IF m = 0 THEN <<0, 0>>
    ELSE IF m % 10 = 0 THEN Normalize(m \div 10, e + 1)
    ELSE <<m, e>>

\* the decimal exponent of a float literal, saturated: none is 0
ParseExp(exp) ==
    IF exp = <<>> THEN 0
    ELSE LET ds == IF exp[1] \in {PLUS, MINUS} THEN Tail(exp) ELSE exp
             n == ParseNat(ds, 9999)
             v == IF n < 0 THEN 9999 ELSE n
         IN  IF exp[1] = MINUS THEN 0 - v ELSE v

\* str::parse::<f64> of sign? int (. frac)? (e exp)?, for digit runs short
\* enough to be exact in an f64: beyond 1e308 the result is infinite and
\* below 1e-324 it is zero; the sign is kept in every case
ParseF64(sign, int, frac, exp) ==
    LET neg == sign = <<MINUS>>
        n == Normalize(ParseNat(int \o frac, 999999999), ParseExp(exp) - Len(frac))
        sci == n[2] + Len(FmtNat(n[1])) - 1
    IN  IF n[1] = 0 THEN F64("fin", neg, 0, 0)
        ELSE IF sci > 308 THEN F64("inf", neg, 0, 0)
        ELSE IF sci < -324 THEN F64("fin", neg, 0, 0)
        ELSE F64("fin", neg, n[1], n[2])

parse_double(i) ==
    LET sign == opt_sign(i)
    IN  IF sign.kind # "ok" THEN sign
        ELSE LET int == digit1(sign.rest)
             IN  IF int.kind # "ok" THEN int
                 ELSE LET frac == opt_fraction(int.rest)
                      IN  IF frac.kind # "ok" THEN frac
                          ELSE LET exp == opt_exponent(frac.rest)
                               IN  IF exp.kind # "ok" THEN exp
                                   ELSE LET b == crlf(exp.rest)
                                        IN  IF b.kind # "ok" THEN b
                                            ELSE POk(b.rest,
                                                     Double(ParseF64(sign.out, int.out,
                                                                     frac.out, exp.out)))

(***************************************************************************)
(* PartialEq and Hash for RespValue.                                       *)
(***************************************************************************)
\* f64's ==: NaN equals nothing, 0.0 equals -0.0
F64Eq(a, b) ==
    /\ a.cls # "nan"
    /\ b.cls # "nan"
    /\ \/ a = b
       \/ a.cls = "fin" /\ b.cls = "fin" /\ a.m = 0 /\ b.m = 0

RECURSIVE eq(_, _)
eq(a, b) ==
    CASE a.t = "Null" /\ b.t = "Null" -> TRUE
      [] a.t = "Boolean" /\ b.t = "Boolean" -> a.b = b.b
      [] a.t = "Integer" /\ b.t = "Integer" -> a.i = b.i
      [] a.t = "Double" /\ b.t = "Double" -> F64Eq(a.d, b.d)
      [] a.t = "BigNumber" /\ b.t = "BigNumber" -> a.s = b.s
      [] a.t = "SimpleString" /\ b.t = "SimpleString" -> a.s = b.s
      [] a.t = "BulkString" /\ b.t = "BulkString" -> a.s = b.s
      [] a.t = "VerbatimString" /\ b.t = "VerbatimString" -> a.e = b.e /\ a.s = b.s
      [] a.t = "SimpleError" /\ b.t = "SimpleError" -> a.s = b.s
      [] a.t = "BulkError" /\ b.t = "BulkError" -> a.s = b.s
      [] a.t = "Array" /\ b.t = "Array" ->
            /\ Len(a.a) = Len(b.a)
            /\ \A k \in 1 .. Len(a.a) : eq(a.a[k], b.a[k])
      [] OTHER -> FALSE

\* what a value writes into the Hasher, one entry per write: a bool, an i64,
\* the u64 of f64::to_bits (here the float itself, sign included) or a str
Written(w, v) ==
    [w |-> w, b |-> v.b, i |-> v.i, d |-> v.d, s |-> v.s]

RECURSIVE hash(_)
RECURSIVE hash_slice(_)

hash_slice(vs) == IF vs = <<>> THEN <<>> ELSE hash(Head(vs)) \o hash_slice(Tail(vs))

hash(v) ==
    CASE v.t = "Boolean" -> <<Written("bool", Boolean(v.b))>>
      [] v.t = "Integer" -> <<Written("i64", Integer(v.i))>>
      [] v.t = "Double" -> <<Written("u64", Double(v.d))>>
      [] v.t \in {"BigNumber", "SimpleString", "BulkString", "SimpleError", "BulkError"} ->
            <<Written("str", BulkString(v.s))>>
      [] v.t = "VerbatimString" ->
            <<Written("str", BulkString(v.e)), Written("str", BulkString(v.s))>>
      [] v.t = "Array" -> hash_slice(v.a)
      [] OTHER -> <<>>

\* HashSet::insert: the value is dropped when the set holds a member with
\* the same hash that is equal to it (members of different hashes are taken
\* never to meet in the table)
insert(set, v) ==
    IF \E k \in 1 .. Len(set) : hash(set[k]) = hash(v) /\ eq(set[k], v)
    THEN set
    ELSE Append(set, v)

\* HashMap::insert: the value of an entry whose key has the same hash and
\* is equal is replaced, the entry's key kept
map_insert(m, key, v) ==
    IF \E k \in 1 .. Len(m) : hash(m[k][1]) = hash(key) /\ eq(m[k][1], key)
    THEN [k \in 1 .. Len(m) |->
            IF hash(m[k][1]) = hash(key) /\ eq(m[k][1], key) THEN <<m[k][1], v>> ELSE m[k]]
    ELSE Append(m, <<key, v>>)

(***************************************************************************)
(* parse_resp_value: the slice decoder.                                    *)
(***************************************************************************)
\* one_of("+-:$*_#,(!=%~>")
TagBytes == {43, 45, 58, 36, 42, 95, 35, 44, 40, 33, 61, 37, 126, 62}

RECURSIVE parse_resp_value(_)
RECURSIVE parse_array_loop(_, _, _)
RECURSIVE parse_set_loop(_, _, _)
RECURSIVE parse_map_loop(_, _, _)

\* for _ in 0..len { (input, value) = parse_resp_value(input)?; vec.push(value) }
parse_array_loop(i, n, vec) ==
    IF n = 0 THEN POk(i, vec)
    ELSE LET a == parse_resp_value(i)
         IN  IF a.kind # "ok" THEN a
             ELSE parse_array_loop(a.rest, n - 1, Append(vec, a.out))

\* Vec::with_capacity(len) panics on a capacity beyond what can be allocated
parse_array_internal(i) ==
    LET len == parse_usize(i)
    IN  IF len.kind # "ok" THEN len
        ELSE IF ~with_capacity_ok(len.out) THEN PPanic
        ELSE parse_array_loop(len.rest, len.out, <<>>)

parse_array(i) ==
    LET a == parse_array_internal(i)
    IN  IF a.kind # "ok" THEN a ELSE POk(a.rest, Array(a.out))

parse_push(i) ==
    LET a == parse_array_internal(i)
    IN  IF a.kind # "ok" THEN a ELSE POk(a.rest, Push(a.out))

parse_set_loop(i, n, set) ==
    IF n = 0 THEN POk(i, set)
    ELSE LET a == parse_resp_value(i)
         IN  IF a.kind # "ok" THEN a
             ELSE parse_set_loop(a.rest, n - 1, insert(set, a.out))

parse_set(i) ==
    LET len == parse_usize(i)
    IN  IF len.kind # "ok" THEN len
        ELSE IF ~with_capacity_ok(len.out) THEN PPanic
        ELSE LET a == parse_set_loop(len.rest, len.out, <<>>)
             IN  IF a.kind # "ok" THEN a ELSE POk(a.rest, SetOf(a.out))

parse_map_loop(i, n, m) ==
    IF n = 0 THEN POk(i, m)
    ELSE LET key == parse_resp_value(i)
         IN  IF key.kind # "ok" THEN key
             ELSE LET v == parse_resp_value(key.rest)
                  IN  IF v.kind # "ok" THEN v
                      ELSE parse_map_loop(v.rest, n - 1, map_insert(m, key.out, v.out))

parse_map(i) ==
    LET len == parse_usize(i)
    IN  IF len.kind # "ok" THEN len
        ELSE IF ~with_capacity_ok(len.out) THEN PPanic
        ELSE LET a == parse_map_loop(len.rest, len.out, <<>>)
             IN  IF a.kind # "ok" THEN a ELSE POk(a.rest, MapOf(a.out))

parse_resp_value(bytes) ==
    LET t == one_of(TagBytes, bytes)
        first_byte == t.out
        i == t.rest
    IN  IF t.kind # "ok" THEN t
        ELSE CASE first_byte = 95 -> parse_null(i)
               [] first_byte = 35 -> parse_boolean(i)
               [] first_byte = 58 -> parse_integer(i)
               [] first_byte = 44 -> parse_double(i)
               [] first_byte = 40 -> parse_big_number(i)
               [] first_byte = 43 -> parse_simple_string(i)
               [] first_byte = 36 -> parse_bulk_string(i)
               [] first_byte = 61 -> parse_verbatim_string(i)
               [] first_byte = 45 -> parse_simple_error(i)
               [] first_byte = 33 -> parse_bulk_error(i)
               [] first_byte = 42 -> parse_array(i)
               [] first_byte = 62 -> parse_push(i)
               [] first_byte = 126 -> parse_set(i)
               [] first_byte = 37 -> parse_map(i)

(***************************************************************************)
(* RespReader: the stream decoder.                                         *)
(***************************************************************************)
\* a multiplication that wraps around instead of reporting the overflow
wrapping_mul(a, b) == [some |-> TRUE, v |-> (a * b) % (2 ^ UsizeBits)]

\* usize::checked_mul / usize::checked_add: None above usize::MAX
checked_mul(a, b) == IF a * b > UsizeMax THEN [some |-> FALSE, v |-> 0]
                     ELSE [some |-> TRUE, v |-> a * b]
checked_add(a, b) == IF a + b > UsizeMax THEN [some |-> FALSE, v |-> 0]
                     ELSE [some |-> TRUE, v |-> a + b]

\* a Result of the decoder: Ok(val), Err(err) (ch: the byte an error carries)
\* or a panic of the task
Ok(v, r) == [kind |-> "ok", val |-> v, n |-> 0, err |-> "", ch |-> 0, r |-> r]
OkLen(n, r) == [kind |-> "ok", val |-> Null, n |-> n, err |-> "", ch |-> 0, r |-> r]
Err(e, r) == [kind |-> "err", val |-> Null, n |-> 0, err |-> e, ch |-> 0, r |-> r]
ErrCh(e, c, r) == [kind |-> "err", val |-> Null, n |-> 0, err |-> e, ch |-> c, r |-> r]
Panic(r) == [kind |-> "panic", val |-> Null, n |-> 0, err |-> "", ch |-> 0, r |-> r]

\* the library returns RespReaderError variants from parse_length, the binary
\* anyhow! messages
length_error(i, e) ==
    IF i = "lib" THEN e
    ELSE CASE e = "LengthOverflowed" -> "anyhow: Length Overflowed!"
           [] e = "InvalidCharInLength" -> "anyhow: Invalid character in length"
           [] e = "BufferFinished" -> "anyhow: Stream ended while reading length!"
           [] e = "MissingNewline" -> "anyhow: Missing newline after length!"

RECURSIVE parse_length_loop(_, _, _)
parse_length_loop(i, r, len) ==
    LET a == next(i, r)
    IN  IF ~a.some THEN Err(length_error(i, "BufferFinished"), a.r)
        ELSE IF a.b = CR
        THEN LET b == next(i, a.r)
             IN  IF b.some /\ b.b = LF THEN OkLen(len, b.r)
                 ELSE Err(length_error(i, "MissingNewline"), b.r)
        ELSE IF ZERO <= a.b /\ a.b <= NINE
        THEN LET shifted == checked_mul(len, 10)
                 digit == a.b - ZERO
                 sum == checked_add(shifted.v, digit)
             IN  IF ~shifted.some THEN Err(length_error(i, "LengthOverflowed"), a.r)
                 ELSE IF ~sum.some THEN Err(length_error(i, "LengthOverflowed"), a.r)
                 ELSE parse_length_loop(i, a.r, sum.v)
        ELSE ErrCh(length_error(i, "InvalidCharInLength"), a.b, a.r)

parse_length(i, r) == parse_length_loop(i, r, 0)

\* the error of String::from_utf8 on a bulk payload: mapped to NonUtf8String by
\* the library, passed on as the FromUtf8Error by the binary
bulk_utf8_error(i) == IF i = "lib" THEN "NonUtf8String" ELSE "FromUtf8Error"

RECURSIVE RespReader_next(_, _)
RECURSIVE next_array_loop(_, _, _, _)

\* the binary's loop: for _ in 0..num_elements { values.push(next_boxed()?) }
\* (Vec::with_capacity(num_elements) is checked as for bytes: the size of an
\* element is scaled down with the width of usize)
next_array_loop(i, r, left, values) ==
    IF left = 0 THEN Ok(Array(values), r)
    ELSE LET e == RespReader_next(i, r)
         IN  IF e.kind # "ok" THEN e
             ELSE next_array_loop(i, e.r, left - 1, Append(values, e.val))

next_boxed(i, r) == RespReader_next(i, r)

next_array(i, r) ==
    LET len == parse_length(i, r)
    IN  IF len.kind # "ok" THEN len
        ELSE IF i = "lib" THEN Ok(Array(<<>>), len.r)
        ELSE IF ~with_capacity_ok(len.n) THEN Panic(len.r)
        ELSE next_array_loop(i, len.r, len.n, <<>>)

next_bulk_string(i, r) ==
    LET len == parse_length(i, r)
    IN  IF len.kind # "ok" THEN len
        ELSE LET t == take(i, len.r, len.n)
             IN  IF t.panic THEN Panic(t.r)
                 ELSE IF ~t.some THEN Err("BufferFinished", t.r)
                 ELSE LET nl == assert_newline(i, t.r)
                      IN  IF ~nl.ok THEN Err("MissingNewline", nl.r)
                          ELSE IF ~from_utf8_ok(t.bytes)
                          THEN Err(bulk_utf8_error(i), nl.r)
                          ELSE Ok(BulkString(t.bytes), nl.r)

RespReader_next(i, r) ==
    LET first == next(i, r)
        dt == try_from(first.b)
    IN  IF ~first.some THEN Err("BufferFinished", first.r)
        ELSE IF dt = "Null"
        THEN LET nl == assert_newline(i, first.r)
             IN  IF ~nl.ok THEN Err("MissingNewline", nl.r) ELSE Ok(Null, nl.r)
        ELSE IF dt = "SimpleString"
        THEN LET l == next_line(i, first.r)
             IN  IF ~l.some THEN Err("MissingNewline", l.r)
                 ELSE IF ~from_utf8_ok(l.bytes) THEN Err("NonUtf8String", l.r)
                 ELSE Ok(SimpleString(l.bytes), l.r)
        ELSE IF dt = "BulkString" THEN next_bulk_string(i, first.r)
        ELSE IF dt = "Array" THEN next_array(i, first.r)
        ELSE IF dt # "Err"
        THEN Err("Unimplemented", next_line(i, first.r).r)
        ELSE ErrCh("UnknownDataType", first.b, next_line(i, first.r).r)

(***************************************************************************)
(* The state machine of one connection's reader.                           *)
(***************************************************************************)
Impls == {"lib", "bin"}

\* what an operation returned, in one shape for every operation
Result(kind) ==
    [kind |-> kind, ok |-> FALSE, b |-> 0, bytes |-> <<>>, n |-> 0, err |-> "",
     ch |-> 0, val |-> Null]

NoResult == Result("init")

OfOption(o) ==
    IF o.panic THEN Result("panic")
    ELSE IF o.some THEN [Result("some") EXCEPT !.b = o.b, !.bytes = o.bytes]
    ELSE Result("none")

OfBool(x) == [Result("bool") EXCEPT !.ok = x.ok]

OfDecode(d) ==
    [Result(d.kind) EXCEPT !.val = d.val, !.n = d.n, !.err = d.err, !.ch = d.ch]

NoCheckpoint == [alive |-> FALSE, initial |-> <<>>, from |-> <<>>]

\* no connection handled yet: nothing written
NoConn == [pc |-> "idle", written |-> <<>>, last |-> <<>>]

\* the keys and the values of the store
Keys == {"k1", "k2"}
DatabaseValue_String(s) == [t |-> "String", s |-> s]
DatabaseValues == {DatabaseValue_String("v1"), DatabaseValue_String("v2")}

\* no entry under a key; DatabaseSlot::Simple(value); DatabaseSlot::Timed
Vacant == [kind |-> "Vacant", value |-> DatabaseValue_String(""), expires |-> 0]
Simple(v) == [kind |-> "Simple", value |-> v, expires |-> 0]
Timed(expires, v) == [kind |-> "Timed", value |-> v, expires |-> expires]

\* a Duration, or none
NoTtl == [some |-> FALSE, d |-> 0]
Ttl(d) == [some |-> TRUE, d |-> d]

\* the last set of a key that no delete followed: its value, time and ttl,
\* and the kind of the entry it found under the key
NeverSet ==
    [set |-> FALSE, value |-> DatabaseValue_String(""), at |-> 0, ttl |-> NoTtl,
     over |-> "Vacant"]

\* Database { values }: no entry under any key; the clock at its origin
NoDb == [values |-> [k \in Keys |-> Vacant], now |-> 0, last |-> [k \in Keys |-> NeverSet]]

\* an operation called, its argument, and how many reads of the stream it made
Call(name, n, reads) == [name |-> name, n |-> n, reads |-> reads]

Running == result.kind # "panic"

\* an operation runs on the reader over one chunking of what the stream still
\* holds and leaves the buffer and the undelivered bytes behind
Reads(name, n, c, res, out) ==
    /\ op' = Call(name, n, Len(c) - Len(res.r.stream))
    /\ pre' = buffer \o wire
    /\ result' = out
    /\ buffer' = res.r.buffer
    /\ wire' = Flatten(res.r.stream)

Runs(name, n, c, res, out) ==
    /\ Reads(name, n, c, res, out)
    /\ UNCHANGED <<impl, input, value, other, encoded, decoded, conn, db>>

CallNext ==
    /\ Running
    /\ \E c \in Chunkings(wire) :
          LET res == next(impl, Reader(buffer, c))
          IN  Runs("next", 0, c, res, OfOption(res))
    /\ UNCHANGED checkpoint

CallAssertNewline ==
    /\ Running
    /\ \E c \in Chunkings(wire) :
          LET res == assert_newline(impl, Reader(buffer, c))
          IN  Runs("assert_newline", 0, c, res, OfBool(res))
    /\ UNCHANGED checkpoint

CallNextLine ==
    /\ Running
    /\ \E c \in Chunkings(wire) :
          LET res == next_line(impl, Reader(buffer, c))
          IN  Runs("next_line", 0, c, res, OfOption(res))
    /\ UNCHANGED checkpoint

TakeSizes == (0 .. MaxTake) \cup {UsizeMax}

CallTake ==
    /\ Running
    /\ \E n \in TakeSizes, c \in Chunkings(wire) :
          LET res == take(impl, Reader(buffer, c), n)
          IN  Runs("take", n, c, res, OfOption(res))
    /\ UNCHANGED checkpoint

CallParseLength ==
    /\ Running
    /\ \E c \in Chunkings(wire) :
          LET res == parse_length(impl, Reader(buffer, c))
          IN  Runs("parse_length", 0, c, res, OfDecode(res))
    /\ UNCHANGED checkpoint

\* AsyncReader::checkpoint / Checkpoint::new: initial = Some(buffer.clone());
\* only the library has checkpoints, and one borrows the reader exclusively
NewCheckpoint ==
    /\ Running
    /\ impl = "lib"
    /\ ~checkpoint.alive
    /\ checkpoint' = [alive |-> TRUE, initial |-> buffer, from |-> buffer \o wire]
    /\ op' = Call("checkpoint", 0, 0)
    /\ pre' = buffer \o wire
    /\ result' = Result("unit")
    /\ UNCHANGED <<impl, input, buffer, wire, value, other, encoded, decoded, conn, db>>

\* a drop that commits: the checkpoint ends and the buffer stays as it is
CommitCheckpoint ==
    /\ Running
    /\ checkpoint.alive
    /\ buffer' = buffer
    /\ checkpoint' = [checkpoint EXCEPT !.alive = FALSE]
    /\ op' = Call("drop", 0, 0)
    /\ pre' = buffer \o wire
    /\ result' = Result("unit")
    /\ UNCHANGED <<impl, input, wire, value, other, encoded, decoded, conn, db>>

\* Drop for Checkpoint: initial.take() is always Some, the buffer is restored
DropCheckpoint ==
    /\ Running
    /\ checkpoint.alive
    /\ buffer' = checkpoint.initial
    /\ checkpoint' = [checkpoint EXCEPT !.alive = FALSE]
    /\ op' = Call("drop", 0, 0)
    /\ pre' = buffer \o wire
    /\ result' = Result("unit")
    /\ UNCHANGED <<impl, input, wire, value, other, encoded, decoded, conn, db>>

ReaderAlphabet == {CR, LF, 49, NINE}

InitReader(impls, alphabet) ==
    /\ impl \in impls
    /\ input \in SeqsUpTo(alphabet, MaxBytes)
    /\ buffer = <<>>
    /\ wire = input
    /\ checkpoint = NoCheckpoint
    /\ op = Call("new", 0, 0)
    /\ pre = input
    /\ result = NoResult
    /\ value = Null
    /\ other = Null
    /\ encoded = <<>>
    /\ decoded = NoResult
    /\ conn = NoConn
    /\ db = NoDb

\* the reader's operations, called in any order on any input
Init == InitReader(Impls, ReaderAlphabet)

Next ==
    \/ CallNext
    \/ CallAssertNewline
    \/ CallNextLine
    \/ CallTake
    \/ CallParseLength

Spec == Init /\ [][Next]_vars

(***************************************************************************)
(* Claims about the reader's operations (Spec).                            *)
(***************************************************************************)
Unconsumed == buffer \o wire

\* C4: take(n) returns Some(the next n bytes) and removes exactly those from
\* what later reads see; it returns None only when the stream ends before n
\* bytes were available; it never panics.
TakeReturnsNextBytes ==
    op.name = "take" =>
        /\ result.kind # "panic"
        /\ result.kind = "some" =>
              /\ result.bytes = Take(pre, op.n)
              /\ Unconsumed = Drop(pre, op.n)
        /\ result.kind = "none" => Len(pre) < op.n
        /\ Len(pre) >= op.n => result.kind = "some"

IsDigit(b) == ZERO <= b /\ b <= NINE

RECURSIVE LeadingDigits(_)
LeadingDigits(bs) ==
    IF bs # <<>> /\ IsDigit(bs[1]) THEN <<bs[1]>> \o LeadingDigits(Tail(bs)) ELSE <<>>

\* the number a digit run denotes, in unbounded arithmetic
RECURSIVE DigitsValue(_)
DigitsValue(ds) ==
    IF ds = <<>> THEN 0
    ELSE 10 * DigitsValue(Take(ds, Len(ds) - 1)) + (ds[Len(ds)] - ZERO)

\* C10: parse_length on a digit run whose value exceeds usize::MAX returns
\* LengthOverflowed; a length it returns is the value of the digits, never a
\* wrapped one; it never panics.
LengthOverflowSafe ==
    (op.name = "parse_length" /\ impl = "lib") =>
        LET v == DigitsValue(LeadingDigits(pre))
        IN  /\ result.kind # "panic"
            /\ v > UsizeMax => (result.kind = "err" /\ result.err = "LengthOverflowed")
            /\ result.kind = "ok" => (result.n = v /\ v <= UsizeMax)

LengthOverflowWitness ==
    /\ op.name = "parse_length"
    /\ impl = "lib"
    /\ DigitsValue(LeadingDigits(pre)) > UsizeMax
    /\ result.err = "LengthOverflowed"

\* the library's reader with checkpoints taken and dropped between the calls
CheckpointAlphabet == {CR, LF, 97}

InitCheckpoint == InitReader({"lib"}, CheckpointAlphabet)

NextCheckpoint ==
    \/ CallNext
    \/ CallAssertNewline
    \/ CallNextLine
    \/ CallTake
    \/ NewCheckpoint
    \/ DropCheckpoint

SpecCheckpoint == InitCheckpoint /\ [][NextCheckpoint]_vars

\* C5: when a Checkpoint is dropped, the reads that follow deliver every byte
\* of the stream from the position where the checkpoint was created, the
\* bytes fill_buf pulled while it was alive included.
CheckpointDropLosesNoBytes ==
    op.name = "drop" => Unconsumed = checkpoint.from

\* C29: a Checkpoint holds the buffer of the moment it was created, keeps it
\* whatever is read through it, and ends in one way only, by the drop that
\* makes the reader's buffer that snapshot again.
CheckpointRollsBack ==
    /\ [](op.name = "drop" => buffer = checkpoint.initial)
    /\ [][/\ (~checkpoint.alive /\ checkpoint'.alive) => checkpoint'.initial = buffer
          /\ (checkpoint.alive /\ checkpoint'.alive) =>
                 checkpoint'.initial = checkpoint.initial
          /\ (checkpoint.alive /\ ~checkpoint'.alive) =>
                 (op'.name = "drop" /\ buffer' = checkpoint.initial)]_vars

\* a drop that undoes reads: bytes were consumed through the checkpoint and
\* the drop put a non-empty snapshot back in their place
CheckpointRollsBackWitness ==
    /\ op.name = "drop"
    /\ checkpoint.initial # <<>>
    /\ pre # checkpoint.from
    /\ Unconsumed # pre
    /\ buffer = checkpoint.initial

(***************************************************************************)
(* The stream decoder called again and again on one connection (SpecResp). *)
(* The peer sends up to MaxFrags fragments, each an encoded value, whole   *)
(* or malformed, and closes its side after any byte.                       *)
(***************************************************************************)
Fragments ==
    { <<95, CR, LF>>,                       \* _\r\n
      <<43, 97, CR, LF>>,                   \* +a\r\n
      <<36, 49, CR, LF, 97, CR, LF>>,       \* $1\r\na\r\n
      <<36, 49, CR, LF, 97, 97, CR, LF>>,   \* $1\r\naa\r\n
      <<42, 49, CR, LF>>,                   \* *1\r\n
      <<33, 49, CR, LF, 97, CR, LF>>,       \* !1\r\na\r\n
      <<63, 97, CR, LF>>,                   \* ?a\r\n
      <<63, CR, 97, CR, LF>> }              \* ?\ra\r\n

Prefixes(s) == {Take(s, k) : k \in 0 .. Len(s)}

RespInputs == UNION {Prefixes(Flatten(fs)) : fs \in SeqsUpTo(Fragments, MaxFrags)}

\* one read, one read per byte, or a first read that ends anywhere
StreamChunkings(s) ==
    ChunkingsCut(s, 1) \cup {Bytewise(s)}

CallRespNext ==
    /\ Running
    /\ \E c \in StreamChunkings(wire) :
          LET res == RespReader_next(impl, Reader(buffer, c))
          IN  Runs("RespReader_next", 0, c, res, OfDecode(res))
    /\ UNCHANGED checkpoint

InitResp ==
    /\ impl \in Impls
    /\ input \in RespInputs
    /\ buffer = <<>>
    /\ wire = input
    /\ checkpoint = NoCheckpoint
    /\ op = Call("new", 0, 0)
    /\ pre = input
    /\ result = NoResult
    /\ value = Null
    /\ other = Null
    /\ encoded = <<>>
    /\ decoded = NoResult
    /\ conn = NoConn
    /\ db = NoDb

NextResp == CallRespNext

SpecResp == InitResp /\ [][NextResp]_vars

OneRead(bs) == Reader(<<>>, IF bs = <<>> THEN <<>> ELSE <<bs>>)

\* C2: however the stream splits the bytes into reads, RespReader::next
\* returns the outcome, and leaves the bytes unconsumed, that it returns and
\* leaves when all the bytes arrive in one read.
SplitIndependent ==
    op.name = "RespReader_next" =>
        LET ref == RespReader_next(impl, OneRead(pre))
        IN  /\ result = OfDecode(ref)
            /\ Unconsumed = ref.r.buffer \o Flatten(ref.r.stream)

\* an Array of one element decoded by the binary across three reads or more
SplitIndependentWitness ==
    /\ op.name = "RespReader_next"
    /\ op.reads >= 3
    /\ result.kind = "ok"
    /\ result.val.t = "Array"
    /\ Len(result.val.a) = 1

\* the values the stream decoder supports as elements, and some it does not
StreamValues == {Null, SimpleString(<<97>>), BulkString(<<97>>)}
UnimplementedValues == {BulkError(<<97>>), Integer(1), Boolean(TRUE)}

ByLibrary == op.name = "RespReader_next" /\ impl = "lib"

\* C3: on '*' N CRLF and N well-formed values the library's decoder returns
\* the Array of exactly those N values in wire order and leaves the stream
\* right after the last element.
ArrayHoldsItsElements ==
    ByLibrary =>
        \A vs \in SeqsUpTo(StreamValues, MaxFrags) :
            IsPrefix(fmt(Array(vs)), pre) =>
                /\ result.kind = "ok"
                /\ result.val = Array(vs)
                /\ Unconsumed = Drop(pre, Len(fmt(Array(vs))))

\* C6: on '$' len CRLF followed by len bytes p and two more bytes, the decoder
\* returns BulkString(p) when the two bytes are CR LF and MissingNewline when
\* they are not; a BulkString it returns has the declared length.
BulkLengthFidelity ==
    ByLibrary =>
        \A len \in 0 .. IsizeMax :
            LET head == <<36>> \o FmtNat(len) \o CRLF
                p == SubSeq(pre, Len(head) + 1, Len(head) + len)
                after == SubSeq(pre, Len(head) + len + 1, Len(head) + len + 2)
            IN  (IsPrefix(head, pre) /\ Len(pre) >= Len(head) + len + 2
                    /\ from_utf8_ok(p)) =>
                    IF after = CRLF
                    THEN result.kind = "ok" /\ result.val = BulkString(p)
                    ELSE result.kind = "err" /\ result.err = "MissingNewline"

\* C7: when the stream is closed before the value being decoded is complete,
\* the decoder returns BufferFinished.
ShortReadIsBufferFinished ==
    ByLibrary =>
        \A v \in StreamValues :
            (IsPrefix(pre, fmt(v)) /\ pre # fmt(v)) =>
                (result.kind = "err" /\ result.err = "BufferFinished")

\* the position of the LF of the first CR LF pair of bs, 0 when there is none
FirstCRLF(bs) ==
    LET at == {k \in 1 .. (Len(bs) - 1) : bs[k] = CR /\ bs[k + 1] = LF}
    IN  IF at = {} THEN 0 ELSE 1 + CHOOSE k \in at : \A j \in at : k <= j

\* C8: on a first byte that is no tag the decoder returns UnknownDataType with
\* that byte and has consumed exactly the bytes up to and including the next
\* CR LF pair.
UnknownTagSkipsLine ==
    (ByLibrary /\ pre # <<>> /\ try_from(pre[1]) = "Err" /\ FirstCRLF(pre) # 0) =>
            /\ result.kind = "err"
            /\ result.err = "UnknownDataType"
            /\ result.ch = pre[1]
            /\ Unconsumed = Drop(pre, FirstCRLF(pre))

\* C9: after Unimplemented for a value of a recognised, unsupported type every
\* byte of that value has been consumed.
UnimplementedConsumesValue ==
    ByLibrary =>
        \A v \in UnimplementedValues :
            IsPrefix(fmt(v), pre) =>
                /\ result.kind = "err"
                /\ result.err = "Unimplemented"
                /\ Unconsumed = Drop(pre, Len(fmt(v)))

(***************************************************************************)
(* SpecCodec: a RespValue is written by Display and the bytes are handed   *)
(* to parse_resp_value.                                                    *)
(***************************************************************************)
\* texts a Cow<str> can hold: empty, ASCII, a two-byte character, a line break
CodecTexts == {<<>>, <<97>>, <<97, 98>>, <<195, 169>>, <<97, CR, LF>>}

\* texts of a BigNumber: digit runs with and without sign, and a non-number
CodecNumbers == {<<49>>, <<MINUS, 49>>, <<PLUS, 49, ZERO>>, <<97>>}

\* format codes of a VerbatimString: three bytes, and fewer
CodecEncodings == {<<116, 120, 116>>, <<97, 98>>}

CodecIntegers == {I64Min, -1, 0, 9, I64Max}

\* 0.0, -0.0, 1.5, -2.0, 0.001, 1e16, 1.5e-7, inf, -inf, NaN
CodecDoubles ==
    {F64("fin", FALSE, 0, 0), F64("fin", TRUE, 0, 0), F64("fin", FALSE, 15, -1),
     F64("fin", TRUE, 2, 0), F64("fin", FALSE, 1, -3), F64("fin", FALSE, 1, 16),
     F64("fin", FALSE, 15, -8), F64("inf", FALSE, 0, 0), F64("inf", TRUE, 0, 0),
     F64("nan", FALSE, 0, 0)}

CodecScalars ==
    {Null, Boolean(TRUE), Boolean(FALSE)}
    \cup {Integer(i) : i \in CodecIntegers}
    \cup {Double(d) : d \in CodecDoubles}
    \cup {BigNumber(s) : s \in CodecNumbers}
    \cup {SimpleString(s) : s \in CodecTexts}
    \cup {SimpleError(s) : s \in CodecTexts}
    \cup {BulkString(s) : s \in CodecTexts}
    \cup {BulkError(s) : s \in CodecTexts}
    \cup {VerbatimString(e, s) : e \in CodecEncodings, s \in CodecTexts}

\* the elements of the sequences: scalars and sequences one level down
CodecElements ==
    {Null, Integer(-1), Double(F64("fin", FALSE, 15, -1)), BulkString(<<97>>),
     SimpleString(<<97, 98>>), Array(<<>>), Array(<<Boolean(TRUE)>>), Push(<<>>)}

CodecValues ==
    CodecScalars
    \cup {Array(a) : a \in SeqsUpTo(CodecElements, MaxElems)}
    \cup {Push(a) : a \in SeqsUpTo(CodecElements, MaxElems)}
    \cup {SetOf(<<>>), SetOf(<<Null>>), MapOf(<<>>), MapOf(<<<<Null, Integer(0)>>>>)}

RECURSIVE HasVariant(_, _)
HasVariant(v, ts) ==
    \/ v.t \in ts
    \/ \E k \in 1 .. Len(v.a) : HasVariant(v.a[k], ts)
    \/ \E k \in 1 .. Len(v.m) : HasVariant(v.m[k][1], ts) \/ HasVariant(v.m[k][2], ts)

\* value.to_string()
CallDisplay ==
    /\ op.name = "new"
    /\ encoded' = fmt(value)
    /\ op' = Call("fmt", 0, 0)
    /\ UNCHANGED <<impl, input, buffer, wire, checkpoint, pre, result, value, other, decoded, conn, db>>

\* parse_resp_value(encoded.as_bytes())
CallParse ==
    /\ op.name = "fmt"
    /\ decoded' = parse_resp_value(encoded)
    /\ op' = Call("parse_resp_value", 0, 0)
    /\ UNCHANGED <<impl, input, buffer, wire, checkpoint, pre, result, value, other, encoded, conn, db>>

InitCodec ==
    /\ impl = "lib"
    /\ input = <<>>
    /\ buffer = <<>>
    /\ wire = <<>>
    /\ checkpoint = NoCheckpoint
    /\ op = Call("new", 0, 0)
    /\ pre = <<>>
    /\ result = NoResult
    /\ value \in CodecValues
    /\ other = Null
    /\ encoded = <<>>
    /\ decoded = NoResult
    /\ conn = NoConn
    /\ db = NoDb

NextCodec == CallDisplay \/ CallParse

SpecCodec == InitCodec /\ [][NextCodec]_vars

\* C1: every value without a Set or a Map at any depth, written by Display
\* and parsed by parse_resp_value, comes back: the parse succeeds, leaves no
\* input unconsumed, and returns a value equal to the one written under
\* RespValue's PartialEq.
RoundTrip ==
    (op.name = "parse_resp_value" /\ ~HasVariant(value, {"Set", "Map"})) =>
        /\ decoded.kind = "ok"
        /\ decoded.rest = <<>>
        /\ eq(decoded.out, value)

(***************************************************************************)
(* SpecParse: parse_resp_value is handed a slice: the first n bytes of an  *)
(* input that is an encoding written by Display, or a malformed one, with  *)
(* or without bytes following it.                                          *)
(***************************************************************************)
\* values whose encodings the decoder is given, one or more of each variant
ParseValues ==
    {Null, Boolean(TRUE), Integer(-1), Integer(1), Double(F64("fin", FALSE, 15, -1)),
     Double(F64("fin", FALSE, 1, 16)), BigNumber(<<PLUS, 49, ZERO>>),
     SimpleString(<<97>>), SimpleString(<<195, 169>>), SimpleError(<<97>>),
     BulkString(<<>>), BulkString(<<97>>), BulkError(<<97>>),
     VerbatimString(<<97, 98, 99>>, <<>>), VerbatimString(<<116, 120, 116>>, <<97>>),
     VerbatimString(<<116, 120, 116>>, <<97, 97, 97, 97, 97, 97>>),
     Array(<<>>), Array(<<Null>>), Push(<<Integer(-1)>>),
     SetOf(<<Null>>), MapOf(<<<<Null, Boolean(TRUE)>>>>)}

\* inputs the decoder does not accept: ?a  a  +  +a\rX  +\xff  $1 ab  :1x
\* ,1.  #x  =1 a  =4 abcd  *15 (each line ended by CR LF)
RejectedInputs ==
    {<<63, 97>> \o CRLF, <<97>> \o CRLF, <<43>> \o CRLF, <<43, 97, CR, 88>> \o CRLF,
     <<43, 255>> \o CRLF, <<36, 49>> \o CRLF \o <<97, 98>> \o CRLF,
     <<58, 49, 120>> \o CRLF, <<44, 49, DOT>> \o CRLF, <<35, 120>> \o CRLF,
     <<61, 49>> \o CRLF \o <<97>> \o CRLF,
     <<61, 52>> \o CRLF \o <<97, 98, 99, 100>> \o CRLF,
     <<42>> \o FmtNat(UsizeMax) \o CRLF}

\* members of the Sets on the wire: scalars, 0.0 and -0.0, Arrays, a Push
SetMembers ==
    {Null, Integer(1), Double(F64("fin", FALSE, 0, 0)), Double(F64("fin", TRUE, 0, 0)),
     BulkString(<<97>>), Array(<<>>), Array(<<Null>>), Push(<<>>)}

\* Sets as a peer can write them, a member twice included
SetInputs == {fmt(SetOf(<<a, b>>)) : a, b \in SetMembers}

\* what follows the value in the slice: nothing, a lone byte, another value
ParseSuffixes == {<<>>, <<CR>>, <<49>>, <<95>> \o CRLF}

ParseInputs ==
    {x \o y : x \in {fmt(v) : v \in ParseValues} \cup SetInputs \cup RejectedInputs,
               y \in ParseSuffixes}

\* parse_resp_value(&input[..n])
CallParseSlice ==
    /\ op.name = "new"
    /\ \E n \in 0 .. Len(input) :
          /\ encoded' = Take(input, n)
          /\ decoded' = parse_resp_value(Take(input, n))
          /\ op' = Call("parse_resp_value", n, 0)
    /\ UNCHANGED <<impl, input, buffer, wire, checkpoint, pre, result, value, other, conn, db>>

InitParse ==
    /\ impl = "lib"
    /\ input \in ParseInputs
    /\ buffer = <<>>
    /\ wire = <<>>
    /\ checkpoint = NoCheckpoint
    /\ op = Call("new", 0, 0)
    /\ pre = <<>>
    /\ result = NoResult
    /\ value = Null
    /\ other = Null
    /\ encoded = <<>>
    /\ decoded = NoResult
    /\ conn = NoConn
    /\ db = NoDb

NextParse == CallParseSlice

SpecParse == InitParse /\ [][NextParse]_vars

\* the slice is a whole encoding: it parses to a value, nothing left over
Accepted(x) ==
    LET r == parse_resp_value(x) IN r.kind = "ok" /\ r.rest = <<>>

AcceptedInputs == {x \in ParseInputs : Accepted(x)}

StrictPrefix(p, x) == Len(p) < Len(x) /\ IsPrefix(p, x)

\* C11: parse_resp_value returns Incomplete exactly on the strict prefixes
\* of the inputs it accepts; on a slice that no further bytes can make
\* valid, such as a VerbatimString whose complete payload is shorter than
\* four bytes, it returns a hard error and not Incomplete.
IncompleteIffPrefixOfAccepted ==
    op.name = "parse_resp_value" =>
        (decoded.kind = "incomplete"
            <=> \E x \in AcceptedInputs : StrictPrefix(encoded, x))

\* a UTF-8 text with no CR and no LF in it
SimpleText(t) == from_utf8_ok(t) /\ \A k \in 1 .. Len(t) : t[k] \notin {CR, LF}

\* C12: for every UTF-8 text t without CR or LF, parse_resp_value on '+' t
\* CR LF returns SimpleString(t) and an empty remainder; on an input without
\* the tag byte, or with '+' t but without all or part of the CR LF, it
\* returns Err.
SimpleStringAsTested ==
    op.name = "parse_resp_value" =>
        LET n == Len(encoded)
        IN  /\ (/\ n >= 3
                /\ encoded[1] = 43
                /\ Drop(encoded, n - 2) = CRLF
                /\ SimpleText(Take(Tail(encoded), n - 3)))
               => decoded = POk(<<>>, SimpleString(Take(Tail(encoded), n - 3)))
            /\ (\/ n >= 1 /\ encoded[1] \notin TagBytes
                \/ n >= 1 /\ encoded[1] = 43 /\ SimpleText(Tail(encoded))
                \/ n >= 2 /\ encoded[1] = 43 /\ encoded[n] = CR
                          /\ SimpleText(Take(Tail(encoded), n - 2)))
               => decoded.kind \in {"error", "incomplete"}

(***************************************************************************)
(* SpecConn: handle_connection of the binary, one iteration of its loop    *)
(* per step: decode a value, write a reply, go on or leave the loop.       *)
(***************************************************************************)
\* PartialEq for the binary's Value: scalars only
Value_eq(a, b) ==
    CASE a.t = "Null" /\ b.t = "Null" -> TRUE
      [] a.t = "Boolean" /\ b.t = "Boolean" -> a.b = b.b
      [] a.t = "Integer" /\ b.t = "Integer" -> a.i = b.i
      [] a.t = "Double" /\ b.t = "Double" -> F64Eq(a.d, b.d)
      [] a.t = "BigNumber" /\ b.t = "BigNumber" -> a.s = b.s
      [] a.t = "SimpleString" /\ b.t = "SimpleString" -> a.s = b.s
      [] a.t = "SimpleError" /\ b.t = "SimpleError" -> a.s = b.s
      [] a.t = "BulkString" /\ b.t = "BulkString" -> a.s = b.s
      [] OTHER -> FALSE

\* "COMMAND", "PING", "PONG"
COMMAND == <<67, 79, 77, 77, 65, 78, 68>>
PING == <<80, 73, 78, 71>>
PONG == <<80, 79, 78, 71>>

\* "unknown command", "command has to be Array", "unknown error: "
UnknownCommand == <<117, 110, 107, 110, 111, 119, 110, 32, 99, 111, 109, 109, 97, 110, 100>>
CommandHasToBeArray == <<99, 111, 109, 109, 97, 110, 100, 32, 104, 97, 115, 32, 116, 111, 32, 98, 101, 32, 65, 114, 114, 97, 121>>
UnknownError == <<117, 110, 107, 110, 111, 119, 110, 32, 101, 114, 114, 111, 114, 58, 32>>

\* {e}: the Display of the decoder's error (that of a FromUtf8Error without
\* the length and the index it names)
ErrorText(e, ch) ==
    CASE e = "Unimplemented" -> <<117, 110, 105, 109, 112, 108, 101, 109, 101, 110, 116, 101, 100>>
      [] e = "BufferFinished" -> <<98, 117, 102, 102, 101, 114, 32, 102, 105, 110, 105, 115, 104, 101, 100>>
      [] e = "MissingNewline" -> <<109, 105, 115, 115, 105, 110, 103, 32, 110, 101, 119, 108, 105, 110, 101>>
      [] e = "NonUtf8String" -> <<110, 111, 110, 32, 117, 116, 102, 56, 32, 115, 116, 114, 105, 110, 103>>
      [] e = "UnknownDataType" -> <<117, 110, 107, 110, 111, 119, 110, 32, 100, 97, 116, 97, 32, 116, 121, 112, 101, 32>> \o <<ch>>
      [] e = "anyhow: Length Overflowed!" -> <<76, 101, 110, 103, 116, 104, 32, 79, 118, 101, 114, 102, 108, 111, 119, 101, 100, 33>>
      [] e = "anyhow: Invalid character in length" ->
            <<73, 110, 118, 97, 108, 105, 100, 32, 99, 104, 97, 114, 97, 99, 116, 101, 114, 32, 105, 110, 32, 108, 101, 110, 103, 116, 104, 58, 32>> \o <<ch>>
      [] e = "anyhow: Stream ended while reading length!" ->
            <<83, 116, 114, 101, 97, 109, 32, 101, 110, 100, 101, 100, 32, 119, 104, 105, 108, 101, 32, 114, 101, 97, 100, 105, 110, 103, 32, 108, 101, 110, 103, 116, 104, 33>>
      [] e = "anyhow: Missing newline after length!" ->
            <<77, 105, 115, 115, 105, 110, 103, 32, 110, 101, 119, 108, 105, 110, 101, 32, 97, 102, 116, 101, 114, 32, 108, 101, 110, 103, 116, 104, 33>>
      [] e = "FromUtf8Error" -> <<105, 110, 118, 97, 108, 105, 100, 32, 117, 116, 102, 45, 56, 32, 115, 101, 113, 117, 101, 110, 99, 101>>

\* a loop that goes on when the decoder reports the end of the stream
handle_value_ignores_end(res) ==
    IF res.kind = "panic" THEN [pc |-> "panic", msgs |-> <<>>]
    ELSE IF res.kind = "ok" THEN [pc |-> "loop", msgs |-> <<fmt(Null)>>]
    ELSE IF res.err = "BufferFinished" THEN [pc |-> "loop", msgs |-> <<>>]
    ELSE [pc |-> "closed", msgs |-> <<fmt(Null)>>]

\* what one iteration does with the decoder's result: the messages handed
\* to write_half.write and where the loop goes (arr[0] of an empty Array
\* panics)
handle_value(res) ==
    IF res.kind = "panic" THEN [pc |-> "panic", msgs |-> <<>>]
    ELSE IF res.kind = "ok" /\ res.val.t = "Array"
    THEN IF res.val.a = <<>> THEN [pc |-> "panic", msgs |-> <<>>]
         ELSE IF Value_eq(res.val.a[1], BulkString(COMMAND))
         THEN [pc |-> "loop", msgs |-> <<fmt(Array(<<>>))>>]
         ELSE IF Value_eq(res.val.a[1], BulkString(PING))
         THEN [pc |-> "loop", msgs |-> <<fmt(BulkString(PONG))>>]
         ELSE [pc |-> "loop", msgs |-> <<fmt(SimpleError(UnknownCommand))>>]
    ELSE IF res.kind = "ok"
    THEN [pc |-> "loop", msgs |-> <<fmt(SimpleError(CommandHasToBeArray))>>]
    ELSE IF res.err = "BufferFinished"
    THEN [pc |-> "closed", msgs |-> <<>>]
    ELSE [pc |-> "closed",
          msgs |-> <<fmt(SimpleError(UnknownError \o ErrorText(res.err, res.ch)))>>]

\* the reads of a connection: everything at once, or byte by byte
ConnChunkings(s) == {OneRead(s).stream, Bytewise(s)}

\* the body of the loop: what the decoder consumed, and what was written
loop_body(c, res, out) ==
    /\ Reads("handle_value", 0, c, res, OfDecode(res))
    /\ conn' = [pc |-> out.pc, written |-> conn.written \o out.msgs,
                last |-> out.msgs]

\* the match on the decoder's result
match_value(c, res) == loop_body(c, res, handle_value(res))

HandleValue ==
    /\ conn.pc = "loop"
    /\ \E c \in ConnChunkings(wire) :
          \E res \in {RespReader_next(impl, Reader(buffer, c))} : match_value(c, res)
    /\ UNCHANGED <<impl, input, checkpoint, value, other, encoded, decoded, db>>

MaxCmds == 2       \* most fragments of what a client sends

\* what a client sends: commands, other values, malformed and cut-off ones
ConnFragments ==
    {fmt(Array(<<BulkString(PING)>>)), fmt(Array(<<BulkString(COMMAND)>>)),
     fmt(Array(<<BulkString(<<97>>)>>)), fmt(Array(<<>>)), fmt(Array(<<Null>>)),
     fmt(Null),
     fmt(Boolean(TRUE)), fmt(Integer(1)), <<63>> \o CRLF, <<43, 255>> \o CRLF,
     <<95, CR, 97>>, <<36, 49>> \o CRLF \o <<97, 98>> \o CRLF,
     <<36, 49, 120>> \o CRLF, <<36, NINE, NINE>> \o CRLF, <<36, 49>>,
     <<36, 50>> \o CRLF \o <<97>>}

ConnInputs == {Flatten(fs) : fs \in SeqsUpTo(ConnFragments, MaxCmds)}

InitConn ==
    /\ impl = "bin"
    /\ input \in ConnInputs
    /\ buffer = <<>>
    /\ wire = input
    /\ checkpoint = NoCheckpoint
    /\ op = Call("new", 0, 0)
    /\ pre = input
    /\ result = NoResult
    /\ value = Null
    /\ other = Null
    /\ encoded = <<>>
    /\ decoded = NoResult
    /\ conn = [pc |-> "loop", written |-> <<>>, last |-> <<>>]
    /\ db = NoDb

NextConn == HandleValue

SpecConn == InitConn /\ [][NextConn]_vars

\* the malformed-protocol errors of the decoder
MalformedErrors ==
    {"MissingNewline", "NonUtf8String", "UnknownDataType",
     "anyhow: Length Overflowed!", "anyhow: Invalid character in length",
     "anyhow: Missing newline after length!", "FromUtf8Error"}

IsSimpleErrorReply(msg) ==
    Len(msg) >= 3 /\ msg[1] = MINUS /\ Drop(msg, Len(msg) - 2) = CRLF

\* C13: when the decoder returns Unimplemented an error reply is written and
\* the loop goes on to the next value; when it returns a malformed-protocol
\* error exactly one SimpleError reply is written and the loop ends; when it
\* returns BufferFinished the loop ends and nothing is written.
ErrorPolicy ==
    (op.name = "handle_value" /\ result.kind = "err") =>
        /\ result.err = "Unimplemented" =>
              /\ conn.pc = "loop"
              /\ Len(conn.last) = 1
              /\ IsSimpleErrorReply(conn.last[1])
        /\ result.err \in MalformedErrors =>
              /\ conn.pc = "closed"
              /\ Len(conn.last) = 1
              /\ IsSimpleErrorReply(conn.last[1])
        /\ result.err = "BufferFinished" =>
              /\ conn.pc = "closed"
              /\ conn.last = <<>>

(***************************************************************************)
(* SpecEq: two RespValues are compared with == and both are hashed.        *)
(***************************************************************************)
\* 0.0, -0.0, 1.5, inf, NaN
EqDoubles ==
    {F64("fin", FALSE, 0, 0), F64("fin", TRUE, 0, 0), F64("fin", FALSE, 15, -1),
     F64("inf", FALSE, 0, 0), F64("nan", FALSE, 0, 0)}

EqTexts == {<<>>, <<97>>}

EqScalars ==
    {Null, Boolean(TRUE), Boolean(FALSE), Integer(0), Integer(1)}
    \cup {Double(d) : d \in EqDoubles}
    \cup {BigNumber(<<49>>)}
    \cup {SimpleString(s) : s \in EqTexts}
    \cup {SimpleError(s) : s \in EqTexts}
    \cup {BulkString(s) : s \in EqTexts}
    \cup {BulkError(s) : s \in EqTexts}
    \cup {VerbatimString(<<116, 120, 116>>, s) : s \in EqTexts}

\* the elements of the sequences compared
EqElements == {Null, Double(F64("fin", FALSE, 0, 0)), Double(F64("fin", TRUE, 0, 0))}

EqValues ==
    EqScalars
    \cup {Array(a) : a \in SeqsUpTo(EqElements, MaxElems)}
    \cup {Push(a) : a \in SeqsUpTo(EqElements, MaxElems)}
    \cup {Array(<<Array(<<Double(d)>>)>>) : d \in EqDoubles}
    \cup {SetOf(<<>>), SetOf(<<Null>>), MapOf(<<>>)}

\* a == b, and what a and b write into a Hasher of the same state
OfCompare(a, b) ==
    [Result("compare") EXCEPT !.ok = eq(a, b), !.bytes = <<hash(a), hash(b)>>]

CallCompare ==
    /\ op.name = "new"
    /\ op' = Call("compare", 0, 0)
    /\ result' = OfCompare(value, other)
    /\ UNCHANGED <<impl, input, buffer, wire, checkpoint, pre, value, other,
                   encoded, decoded, conn, db>>

InitEq ==
    /\ impl = "lib"
    /\ input = <<>>
    /\ buffer = <<>>
    /\ wire = <<>>
    /\ checkpoint = NoCheckpoint
    /\ op = Call("new", 0, 0)
    /\ pre = <<>>
    /\ result = NoResult
    /\ value \in EqValues
    /\ other \in EqValues
    /\ encoded = <<>>
    /\ decoded = NoResult
    /\ conn = NoConn
    /\ db = NoDb

NextEq == CallCompare

SpecEq == InitEq /\ [][NextEq]_vars

Compared == op.name = "compare"

NoSetOrMap(v) == ~HasVariant(v, {"Set", "Map"})

SameHash == result.bytes[1] = result.bytes[2]

\* C14: hashing agrees with equality: two values without Set or Map that
\* are equal under == hash alike, Doubles that are equal numerically with
\* different bits (0.0 and -0.0) and Arrays of them included.
HashAgreesWithEq ==
    (Compared /\ NoSetOrMap(value) /\ NoSetOrMap(other) /\ result.ok) => SameHash

\* C15: Double equality is by bit pattern: two Doubles with the same bits,
\* a NaN and a NaN of the same bits included, are equal and hash alike; a
\* Double and an Integer are never equal.
DoubleEqByBits ==
    Compared =>
        /\ (value.t = "Double" /\ other.t = "Double" /\ value.d = other.d)
              => (result.ok /\ SameHash)
        /\ ({value.t, other.t} = {"Double", "Integer"}) => ~result.ok

\* C16: equality never holds across variants, and every value without Set
\* or Map is equal to itself and to any value of its variant with the same
\* payload, Array and Push element by element in order.
StructuralEq ==
    Compared =>
        /\ value.t # other.t => ~result.ok
        /\ (NoSetOrMap(value) /\ value = other) => result.ok

(***************************************************************************)
(* Claims about the encoder and the tag table (SpecCodec).                 *)
(***************************************************************************)
Displayed == op.name \in {"fmt", "parse_resp_value"}

\* the length an encoding declares after its tag, and the number of bytes
\* it holds between the CR LF of that header and its last CR LF
DeclaredLength(bs) == DigitsValue(LeadingDigits(Tail(bs)))
PayloadLength(bs) == Len(bs) - (1 + Len(LeadingDigits(Tail(bs))) + 2) - 2

\* C17: the length Display declares for a BulkString or BulkError is the
\* number of bytes of its payload, and the length it declares for a
\* VerbatimString is the number of bytes written between the header's CR LF
\* and the final CR LF: the code, the colon and the text.
EncoderLengths ==
    Displayed =>
        /\ value.t \in {"BulkString", "BulkError"} =>
              /\ DeclaredLength(encoded) = Len(value.s)
              /\ PayloadLength(encoded) = Len(value.s)
        /\ value.t = "VerbatimString" =>
              /\ DeclaredLength(encoded) = PayloadLength(encoded)
              /\ PayloadLength(encoded) = Len(value.e) + 1 + Len(value.s)

\* C18: one tag table: try_from(char::from(t)) is t for each of the 14
\* types and try_from fails on every other byte; the tags are the bytes
\* parse_resp_value accepts; Display writes the tag of the value's variant
\* first, and parse_resp_value on that tag returns a value of that variant.
TagTable ==
    /\ Cardinality(RespDataTypes) = 14
    /\ \A t \in RespDataTypes : try_from(char_from(t)) = t
    /\ \A c \in AllBytes \ {char_from(t) : t \in RespDataTypes} : try_from(c) = "Err"
    /\ TagBytes = {char_from(t) : t \in RespDataTypes}
    /\ Displayed => encoded[1] = char_from(value.t)
    /\ (op.name = "parse_resp_value" /\ decoded.kind = "ok") => decoded.out.t = value.t

TagTableWitness ==
    /\ op.name = "parse_resp_value"
    /\ decoded.kind = "ok"
    /\ value.t = "Push"
    /\ decoded.out.t = "Push"

(***************************************************************************)
(* Claims about the Sets parse_resp_value returns (SpecParse).             *)
(***************************************************************************)
\* the elements a Set's encoding carries on the wire, in order
WireElements(bs) == parse_array_internal(Tail(bs)).out

\* two values that are structurally the same: equal under ==, or of the same
\* variant with the same payload
SameValue(a, b) == a = b \/ eq(a, b)

\* C19: a Set returned by parse_set holds no two members that are equal
\* under RespValue's ==, and wire elements that are structurally the same
\* value (scalars, 0.0 and -0.0, nested Arrays, nested Pushes) are merged
\* into one member, none of them lost.
SetDeduplicates ==
    (op.name = "parse_resp_value" /\ decoded.kind = "ok" /\ decoded.out.t = "Set") =>
        LET set == decoded.out.a
        IN  /\ \A j, k \in 1 .. Len(set) : j # k => ~SameValue(set[j], set[k])
            /\ \A e \in 1 .. Len(WireElements(encoded)) :
                  \E k \in 1 .. Len(set) : SameValue(set[k], WireElements(encoded)[e])

(***************************************************************************)
(* SpecStore: the expiring key-value store.  The source declares the       *)
(* entries (DatabaseValue, DatabaseSlot, Database) and no operation on     *)
(* them: get, set, delete and exists follow the contract of the store's    *)
(* design, with lazy expiration and a clock that the environment advances. *)
(***************************************************************************)
MaxTime == 3       \* the clock stops here
MaxTtl == 2        \* longest time to live of a set

\* an expiration instant that does not let the entry live at the call time
expired_late(slot, now) == slot.kind = "Timed" /\ slot.expires < now

\* a Timed entry whose expiration instant has passed as of the call time
expired(slot, now) == slot.kind = "Timed" /\ slot.expires <= now

\* the entries after the lazy expiration of the one under key
sweep(values, key, now) ==
    IF expired(values[key], now) THEN [values EXCEPT ![key] = Vacant] ELSE values

\* get(key) -> Option<value>
get(d, key) ==
    LET values == sweep(d.values, key, d.now)
    IN  [db |-> [d EXCEPT !.values = values],
         some |-> values[key].kind # "Vacant",
         value |-> values[key].value]

\* exists(key) -> bool: as get, without the value
exists(d, key) ==
    LET g == get(d, key) IN [db |-> g.db, ok |-> g.some]

\* a set that keeps the expiration state of the entry it finds
set_keeps_expiration(d, key, v, ttl) ==
    [d EXCEPT !.values[key] =
                 IF d.values[key].kind = "Vacant"
                 THEN (IF ttl.some THEN Timed(d.now + ttl.d, v) ELSE Simple(v))
                 ELSE [d.values[key] EXCEPT !.value = v],
              !.last[key] = [set |-> TRUE, value |-> v, at |-> d.now, ttl |-> ttl,
                             over |-> d.values[key].kind]]

\* set(key, value, ttl): inserts or overwrites, Timed with expiration = call
\* time + ttl when a ttl is given
set(d, key, v, ttl) ==
    [d EXCEPT !.values[key] = IF ttl.some THEN Timed(d.now + ttl.d, v) ELSE Simple(v),
              !.last[key] = [set |-> TRUE, value |-> v, at |-> d.now, ttl |-> ttl,
                             over |-> d.values[key].kind]]

\* delete(key) -> bool: whether a live entry was removed
delete(d, key) ==
    LET values == sweep(d.values, key, d.now)
    IN  [db |-> [d EXCEPT !.values = [values EXCEPT ![key] = Vacant],
                          !.last[key] = NeverSet],
         ok |-> values[key].kind # "Vacant"]

DbCall(name, key) == [name |-> name, n |-> 0, reads |-> 0, key |-> key]

DbFrame == UNCHANGED <<impl, input, buffer, wire, checkpoint, pre, value, other,
                       encoded, decoded, conn>>

CallGet ==
    /\ \E k \in Keys :
          LET g == get(db, k)
          IN  /\ db' = g.db
              /\ op' = DbCall("get", k)
              /\ result' = IF g.some THEN [Result("some") EXCEPT !.val = g.value]
                           ELSE Result("none")
    /\ DbFrame

CallExists ==
    /\ \E k \in Keys :
          LET x == exists(db, k)
          IN  /\ db' = x.db
              /\ op' = DbCall("exists", k)
              /\ result' = OfBool(x)
    /\ DbFrame

CallSet ==
    /\ \E k \in Keys, v \in DatabaseValues, ttl \in {NoTtl} \cup {Ttl(d) : d \in 1 .. MaxTtl} :
          /\ db' = set(db, k, v, ttl)
          /\ op' = DbCall("set", k)
          /\ result' = Result("unit")
    /\ DbFrame

CallDelete ==
    /\ \E k \in Keys :
          LET x == delete(db, k)
          IN  /\ db' = x.db
              /\ op' = DbCall("delete", k)
              /\ result' = OfBool(x)
    /\ DbFrame

\* time passes
Tick ==
    /\ db.now < MaxTime
    /\ db' = [db EXCEPT !.now = db.now + 1]
    /\ op' = DbCall("tick", "")
    /\ UNCHANGED result
    /\ DbFrame

InitStore ==
    /\ impl = "lib"
    /\ input = <<>>
    /\ buffer = <<>>
    /\ wire = <<>>
    /\ checkpoint = NoCheckpoint
    /\ op = Call("new", 0, 0)
    /\ pre = <<>>
    /\ result = NoResult
    /\ value = Null
    /\ other = Null
    /\ encoded = <<>>
    /\ decoded = NoResult
    /\ conn = NoConn
    /\ db = NoDb

NextStore == CallGet \/ CallExists \/ CallSet \/ CallDelete \/ Tick

SpecStore == InitStore /\ [][NextStore]_vars

\* the key of the last call was set with a ttl, and not deleted since
SetWithTtl == op.name \in {"get", "exists"} /\ db.last[op.key].set /\ db.last[op.key].ttl.some

Expiry == db.last[op.key].at + db.last[op.key].ttl.d

\* C20: after set(k, v, ttl) at time t, get(k) before t + ttl returns v; from
\* t + ttl on get(k) returns absent and removes the expired entry from the
\* store, and exists(k) returns false.
StoreExpiration ==
    SetWithTtl =>
        /\ (db.now < Expiry /\ op.name = "get") =>
              (result.kind = "some" /\ result.val = db.last[op.key].value)
        /\ (db.now < Expiry /\ op.name = "exists") => result.ok
        /\ (db.now >= Expiry /\ op.name = "get") =>
              (result.kind = "none" /\ db.values[op.key] = Vacant)
        /\ (db.now >= Expiry /\ op.name = "exists") => ~result.ok

StoreExpirationWitness ==
    /\ SetWithTtl
    /\ op.name = "get"
    /\ db.now = Expiry
    /\ result.kind = "none"
    /\ db.values[op.key] = Vacant

\* the key of the last call holds a set that found an entry under the key
Overwritten ==
    /\ op.name \in {"set", "get"}
    /\ db.last[op.key].set
    /\ db.last[op.key].over # "Vacant"

\* C21: a set on an existing key replaces the value and the expiration state:
\* with a ttl the entry is Timed, expires at call time + ttl and get returns
\* the new value while it lives; without a ttl the entry is Simple and get
\* returns the new value at any later time.
StoreOverwrite ==
    Overwritten =>
        LET last == db.last[op.key]
            slot == db.values[op.key]
        IN  /\ (op.name = "set" /\ last.ttl.some) =>
                  slot = Timed(last.at + last.ttl.d, last.value)
            /\ (op.name = "set" /\ ~last.ttl.some) => slot = Simple(last.value)
            /\ (op.name = "get" /\ last.ttl.some /\ db.now < last.at + last.ttl.d) =>
                  /\ result.kind = "some"
                  /\ result.val = last.value
                  /\ slot.kind = "Timed"
                  /\ slot.expires > db.now
            /\ (op.name = "get" /\ ~last.ttl.some) =>
                  /\ result.kind = "some"
                  /\ result.val = last.value
                  /\ slot = Simple(last.value)

\* a Timed entry overwritten without a ttl is read after its old expiration
StoreOverwriteWitness ==
    /\ Overwritten
    /\ op.name = "get"
    /\ db.last[op.key].over = "Timed"
    /\ ~db.last[op.key].ttl.some
    /\ db.now > db.last[op.key].at + MaxTtl
    /\ result.kind = "some"

(***************************************************************************)
(* Further claims about the reader's operations (Spec).                    *)
(***************************************************************************)
\* C22: assert_newline consumes exactly two bytes whenever the stream can
\* supply two, whatever they are, and returns true exactly when they are CR
\* followed by LF.
AssertNewlineConsumesTwo ==
    (op.name = "assert_newline" /\ Len(pre) >= 2) =>
        /\ Unconsumed = Drop(pre, 2)
        /\ result.ok <=> Take(pre, 2) = CRLF

\* C24: parse_length returns Ok(n) exactly when the next bytes are the
\* digits (one at least) of a value n within usize followed by CR LF, and has
\* then consumed exactly those; otherwise LengthOverflowed when the value
\* overflows, BufferFinished when the stream ends before the CR,
\* InvalidCharInLength(b) at the first byte b that is no digit and no CR,
\* MissingNewline when the CR is not followed by LF.
ParseLengthContract ==
    (op.name = "parse_length" /\ impl = "lib") =>
        LET ds == LeadingDigits(pre)
            v == DigitsValue(ds)
            after == Drop(pre, Len(ds))
        IN  /\ result.kind = "ok" <=>
                  (ds # <<>> /\ v <= UsizeMax /\ IsPrefix(CRLF, after))
            /\ result.kind = "ok" => (result.n = v /\ Unconsumed = Drop(after, 2))
            /\ result.kind # "ok" =>
                  /\ result.kind = "err"
                  /\ IF v > UsizeMax THEN result.err = "LengthOverflowed"
                     ELSE IF after = <<>> THEN result.err = "BufferFinished"
                     ELSE IF after[1] # CR
                     THEN result.err = "InvalidCharInLength" /\ result.ch = after[1]
                     ELSE result.err = "MissingNewline"

IsSuffix(t, s) == Len(t) <= Len(s) /\ Drop(s, Len(s) - Len(t)) = t

\* C26: with no checkpoint in use, whatever the calls and the chunking, the
\* bytes next, next_line and assert_newline hand out are the next bytes of
\* the stream in stream order: what is left to read is always a suffix of
\* the stream, each call takes its bytes from the front of what was left,
\* and no unread byte is discarded.
ByteOrder ==
    /\ IsSuffix(Unconsumed, input)
    /\ op.name \in {"next", "next_line", "assert_newline"} => IsSuffix(Unconsumed, pre)
    /\ op.name = "next" =>
          IF pre = <<>> THEN result.kind = "none"
          ELSE result.kind = "some" /\ result.b = pre[1] /\ Unconsumed = Tail(pre)
    /\ (op.name = "next_line" /\ result.kind = "some") =>
          pre = result.bytes \o CRLF \o Unconsumed
    /\ (op.name = "assert_newline" /\ result.ok) => pre = CRLF \o Unconsumed

\* a line handed out byte by byte across three reads of the stream
ByteOrderWitness ==
    /\ op.name = "next_line"
    /\ op.reads >= 3
    /\ result.kind = "some"
    /\ result.bytes # <<>>
    /\ pre = result.bytes \o CRLF \o Unconsumed

(***************************************************************************)
(* Further claims about handle_connection (SpecConn).                      *)
(***************************************************************************)
\* C25: for every successfully decoded value, the empty Array, an Array whose
\* first element is no BulkString and every value that is no Array included,
\* the task writes exactly one reply and goes on to decode the next value;
\* it never panics on a decoded value.
NoCrashOnDecodedValue ==
    (op.name = "handle_value" /\ result.kind = "ok") =>
        /\ conn.pc = "loop"
        /\ Len(conn.last) = 1

\* the task is scheduled again and again, and a read of the stream returns:
\* with bytes, or with 0 once the client has closed its side
MaxLiveLen == 8    \* most bytes a client sends before it closes the stream

\* the task is spawned on a stream that carries a few short values
InitConnLive == InitConn /\ Len(input) <= MaxLiveLen

\* tokio polls a spawned task until it completes: the loop keeps being taken
SpecConnLive == InitConnLive /\ [][NextConn]_vars /\ WF_vars(NextConn)

\* C27: the loop of handle_connection ends for every finite input: each
\* iteration consumes a byte of the stream at least or leaves the loop, and
\* eventually the task has left the loop.
LoopTerminates ==
    /\ [][HandleValue =>
            (Len(buffer' \o wire') < Len(buffer \o wire) \/ conn'.pc # "loop")]_vars
    /\ <>(conn.pc # "loop")

\* two commands answered, then the end of the stream closes the connection
LoopTerminatesWitness ==
    /\ conn.pc = "closed"
    /\ Len(conn.written) = 2
    /\ result.kind = "err"
    /\ result.err = "BufferFinished"
    /\ Unconsumed = <<>>

(***************************************************************************)
(* SpecDecoders: the reader's next_line, and both decoders handed the same *)
(* bytes: RespReader::next reads them from the stream, which then ends,    *)
(* and parse_resp_value is given them as one slice.                        *)
(***************************************************************************)
\* both decoders on the bytes the stream still holds
decode_both(c, res) ==
    /\ Reads("decode_both", 0, c, res, OfDecode(res))
    /\ encoded' = buffer \o wire
    /\ decoded' = parse_resp_value(buffer \o wire)

CallDecoders ==
    /\ Running
    /\ \E c \in StreamChunkings(wire) :
          decode_both(c, RespReader_next(impl, Reader(buffer, c)))
    /\ UNCHANGED <<impl, input, checkpoint, value, other, conn, db>>

\* Null, SimpleString and BulkString on the wire: well-formed, with empty
\* text, with a bare LF or a bare CR in the line, with no digit in the
\* length, cut short, and with a value following
DecoderInputs ==
    { <<95>> \o CRLF,                              \* _\r\n
      <<95, CR, 97>>,                              \* _\ra
      <<43, 97>> \o CRLF,                          \* +a\r\n
      <<43>> \o CRLF,                              \* +\r\n
      <<43, 97, LF>> \o CRLF,                      \* +a\n\r\n
      <<43, 97, CR, 98>> \o CRLF,                  \* +a\rb\r\n
      <<43, 97>>,                                  \* +a
      <<43, 97, CR>>,                              \* +a\r
      <<43, 255>> \o CRLF,                         \* +\xff\r\n
      <<36, 49>> \o CRLF \o <<97>> \o CRLF,        \* $1\r\na\r\n
      <<36, ZERO>> \o CRLF \o CRLF,                \* $0\r\n\r\n
      <<36>> \o CRLF \o CRLF,                      \* $\r\n\r\n
      <<36, 49>> \o CRLF \o <<97, 98>> \o CRLF,    \* $1\r\nab\r\n
      <<36, 49>> \o CRLF \o <<97>>,               \* $1\r\na
      <<43, 97>> \o CRLF \o <<95>> \o CRLF,        \* +a\r\n_\r\n
      <<95>> \o CRLF \o <<43, 98>> \o CRLF }       \* _\r\n+b\r\n

InitDecoders ==
    /\ impl \in Impls
    /\ input \in DecoderInputs
    /\ buffer = <<>>
    /\ wire = input
    /\ checkpoint = NoCheckpoint
    /\ op = Call("new", 0, 0)
    /\ pre = input
    /\ result = NoResult
    /\ value = Null
    /\ other = Null
    /\ encoded = <<>>
    /\ decoded = NoResult
    /\ conn = NoConn
    /\ db = NoDb

NextDecoders == CallNextLine \/ CallDecoders

SpecDecoders == InitDecoders /\ [][NextDecoders]_vars

NoCRLF(bs) == \A k \in 1 .. Len(bs) : bs[k] \notin {CR, LF}

\* the position of the first CR of bs, 0 when there is none
FirstCR(bs) ==
    LET at == {k \in 1 .. Len(bs) : bs[k] = CR}
    IN  IF at = {} THEN 0 ELSE CHOOSE k \in at : \A j \in at : k <= j

\* C23: next_line returns Some(line) only when line is the bytes before the
\* first CR and that CR is followed at once by LF, and None when the CR is
\* followed by another byte or the stream ends; a line, and so every
\* SimpleString RespReader::next returns, holds neither a CR nor an LF.
LinesCarryNoCRLF ==
    /\ op.name = "next_line" =>
          LET cr == FirstCR(pre)
              terminated == cr # 0 /\ cr < Len(pre) /\ pre[cr + 1] = LF
          IN  /\ result.kind = "some" <=> terminated
              /\ result.kind = "some" =>
                    (result.bytes = Take(pre, cr - 1) /\ NoCRLF(result.bytes))
    /\ (op.name = "decode_both" /\ result.kind = "ok"
            /\ result.val.t = "SimpleString") => NoCRLF(result.val.s)

\* the tags of Null, SimpleString and BulkString: '_', '+', '$'
PlainTags == {95, 43, 36}

\* C28: on an input that starts with the tag of Null, SimpleString or
\* BulkString, RespReader::next (given the input and then the end of the
\* stream) and parse_resp_value accept the same inputs and return equal
\* values.
DecodersAgree ==
    (op.name = "decode_both" /\ encoded # <<>> /\ encoded[1] \in PlainTags) =>
        /\ result.kind = "ok" <=> decoded.kind = "ok"
        /\ result.kind = "ok" => result.val = decoded.out

(***************************************************************************)
(* A further claim about the slice decoder (SpecParse).                    *)
(***************************************************************************)
\* C30: when a prefix of the slice is a whole encoding, parse_resp_value on
\* the slice returns the value of that prefix and, as remainder, exactly the
\* bytes after it.
OneValueThenRemainder ==
    op.name = "parse_resp_value" =>
        \A k \in 0 .. Len(encoded) :
            Accepted(Take(encoded, k)) =>
                decoded = POk(Drop(encoded, k), parse_resp_value(Take(encoded, k)).out)

\* two values in one slice: the first call returns the Array and leaves the
\* Null, which a second call returns
OneValueThenRemainderWitness ==
    /\ op.name = "parse_resp_value"
    /\ decoded.kind = "ok"
    /\ decoded.out = Array(<<Null>>)
    /\ decoded.rest = fmt(Null)
    /\ parse_resp_value(decoded.rest) = POk(<<>>, Null)

====
